---- MODULE Spec2Model ----
(***************************************************************************)
(* A model of topologicpy's adapter code:                                  *)
(*   - Speckle.py: the remote mesh record (face buffer encoder/decoder)    *)
(*     and the sequencing of remote requests;                              *)
(*   - Plotly.py: the figure export operations (extension normalization    *)
(*     and overwrite guard), the vertex lookup of the face section of      *)
(*     DataByTopology, and the group colors of the traces;                 *)
(*   - Vector.py: the vector operations.                                   *)
(* Each subsystem has its own specification (SpecMesh, SpecRemote,         *)
(* SpecExport, SpecLookup, SpecTrace, SpecVector); the variables of the    *)
(* other subsystems stay at their idle values.                             *)
(***************************************************************************)
EXTENDS Integers, Sequences, FiniteSets, TLC

VARIABLES
    \* ---- Speckle.py: mesh record ----
    origin,      \* "local": a topology is encoded; "remote": a buffer is received
    geomFaces,   \* geom['faces'] of Topology.Geometry(topology)
    sfaces,      \* speckle_mesh.faces, the face buffer on the wire
    mpc,         \* position of the mesh pipeline
    dec_i,       \* add_faces: local i (read position, 0-based)
    dec_raw,     \* add_faces: n as read from sfaces[i]
    dec_n,       \* add_faces: n after the n < 3 adjustment
    faces,       \* add_faces: local list faces
    mret,        \* add_faces: what the call returned
    \* ---- Speckle.py: remote operations ----
    rop,         \* the operation that is called
    rarg,        \* its arguments
    rpc,         \* position of the call
    rlog,        \* the remote requests the call has issued, in order
    rpending,    \* BranchesByStream: the branches of bList not fetched yet
    rret,        \* what the call returned
    srvObjects,  \* remote service: the objects it stores
    srvCommits,  \* remote service: its commits
    \* ---- Plotly.py: figure export ----
    xop,         \* the export format: "JSON", "PDF", "PNG" or "SVG"
    xfig,        \* whether figure is a plotly figure
    xpath,       \* the path argument
    xoverwrite,  \* the overwrite argument
    xpc,         \* position of the call
    xlocal,      \* the local path, after the extension is normalized
    xexists,     \* what os.path.exists(path) answered
    xret,        \* what the call returned
    fs,          \* the file system: existing files and who wrote them
    \* ---- Plotly.py: DataByTopology, face section ----
    ntri,        \* the triangles of the list triangles not visited yet
    ntris,       \* the triangles visited so far
    tri,         \* the triangle visited: the positions of its corners
    ncorner,     \* the corners of tri visited so far
    orig_tolerance, \* local orig_tolerance
    tolerance,   \* the parameter tolerance, reassigned by the loop
    ix,          \* local i: the index Vertex.Index answered, or NoIndex
    temp_f,      \* local temp_f
    dfaces,      \* local faces of DataByTopology
    ijk,         \* faceData: the lists i, j, k of the mesh trace
    lookups,     \* the lookups made for the corner visited, in order
    lpc,         \* position of the face section
    fkeyed,      \* whether faceLabelKey or faceGroupKey is set
    towners,     \* for every triangle, the topology face it was cut from
    f_dictionaries, \* local f_dictionaries: the face whose dictionary it holds
    fsource,     \* for every face of faces, the topology face it came from
    flabels,     \* for every face of the trace, the dictionary faceData read
    \* ---- Plotly.py: vertexData, edgeData, faceData ----
    tkind,       \* which trace is built: "vertex", "edge" or "face"
    keyed,       \* whether labelKey or groupKey is set
    groups,      \* the parameter groups
    minGroupArg, \* the parameter minGroup as the caller passed it
    maxGroupArg, \* the parameter maxGroup as the caller passed it
    minGroup,    \* the parameter minGroup, reassigned by the function
    maxGroup,    \* the parameter maxGroup, reassigned by the function
    dictionaries, \* the group value of the dictionary of every element
    tm,          \* the elements visited so far
    color,       \* the parameter color, reassigned by the loop
    groupList,   \* local groupList
    trace,       \* the colors of the trace that is returned
    tpc,         \* position of the call
    \* ---- Vector.py ----
    vop,         \* the operation that is called
    vectorA,     \* its first vector argument
    vectorB,     \* its second vector argument
    vmantissa,   \* the argument mantissa
    vtolerance,  \* the argument tolerance
    outputType,  \* the argument outputType
    vexps,       \* Angle: the decimal exponents that scale vectorA and vectorB
    vret,        \* what the call returned
    vpc,         \* position of the call
    \* ---- Plotly.py: FigureByMatrix, FigureByConfusionMatrix, FigureByData ----
    fop,         \* the operation that is called
    fmatrix,     \* the argument matrix
    fminArg,     \* the parameter minValue as the caller passed it
    fmaxArg,     \* the parameter maxValue as the caller passed it
    fminValue,   \* the parameter minValue inside FigureByMatrix
    fmaxValue,   \* the parameter maxValue, reassigned by FigureByMatrix
    fdataArg,    \* the list object the caller passed as data
    fdata,       \* the name data inside FigureByData
    faxes,       \* the arguments xAxis, yAxis, zAxis
    faxisSize,   \* the argument axisSize
    fret,        \* what the call returned
    fpc          \* position of the call

meshVars == <<origin, geomFaces, sfaces, mpc, dec_i, dec_raw, dec_n, faces, mret>>
remoteVars == <<rop, rarg, rpc, rlog, rpending, rret, srvObjects, srvCommits>>

exportVars == <<xop, xfig, xpath, xoverwrite, xpc, xlocal, xexists, xret, fs>>

lookupVars == <<ntri, ntris, tri, ncorner, orig_tolerance, tolerance, ix,
                temp_f, dfaces, ijk, lookups, lpc, fkeyed, towners,
                f_dictionaries, fsource, flabels>>

traceVars == <<tkind, keyed, groups, minGroupArg, maxGroupArg, minGroup,
               maxGroup, dictionaries, tm, color, groupList, trace, tpc>>

vectorVars == <<vop, vectorA, vectorB, vmantissa, vtolerance, outputType,
                vexps, vret, vpc>>

figureVars == <<fop, fmatrix, fminArg, fmaxArg, fminValue, fmaxValue,
                fdataArg, fdata, faxes, faxisSize, fret, fpc>>

vars == <<meshVars, remoteVars, exportVars, lookupVars, traceVars,
          vectorVars, figureVars>>

----------------------------------------------------------------------------
\* Bounds of the model.

\* most faces in one topology
MaxFaces == 2
\* vertex indices are 0..MaxIndex
MaxIndex == 3
\* faces have 3..MaxArity vertices
MaxArity == 4
\* longest face buffer received from the remote service
MaxBuf == 4
\* received buffer values are -MaxNeg..MaxCount
MaxNeg == 4
MaxCount == 3
\* most iterations of the decoder loop that are followed
MaxIter == 6
\* commit ids a caller may name are 1..MaxCommit
MaxCommit == 2
\* most branches client.branch.list answers
MaxBranches == 2
\* longest file name stem of an export path
MaxStem == 1
\* most triangles of one topology
MaxTriangles == 2
\* most lookups of one corner that are followed
MaxLookups == 7
\* most elements (vertices, edges or faces) of one trace
MaxElems == 2
\* numeric group values are 0..MaxGroup
MaxGroup == 3
\* the components of the integer vectors are -MaxCoord..MaxCoord
MaxCoord == 2
\* a matrix has 1..MaxDim rows and 1..MaxDim columns
MaxDim == 2
\* the values of a matrix are 0..MaxCell
MaxCell == 1
\* axisSize is 1..MaxAxis
MaxAxis == 2
\* most traces in the data a caller passes to FigureByData
MaxTraces == 2

----------------------------------------------------------------------------
\* Python list semantics.

Max2(a, b) == IF a > b THEN a ELSE b
Min2(a, b) == IF a < b THEN a ELSE b

\* s[k] is defined for -len(s) <= k < len(s); anything else is an IndexError.
PyIndexOk(s, k) == (0 - Len(s)) <= k /\ k < Len(s)
PyIndex(s, k) == IF k >= 0 THEN s[k + 1] ELSE s[Len(s) + k + 1]

\* A slice bound: negative bounds count from the end, all bounds are clamped.
PyBound(s, k) == IF k < 0 THEN Max2(Len(s) + k, 0) ELSE Min2(k, Len(s))
\* s[a:b]
PySlice(s, a, b) == SubSeq(s, PyBound(s, a) + 1, PyBound(s, b))

----------------------------------------------------------------------------
\* Topology.Geometry(topology)['faces']: polygons, each a run of arity
\* consecutive vertex indices around the vertex ring, starting anywhere.

GeometryFace(start, arity) ==
    [k \in 1..arity |-> (start + k - 1) % (MaxIndex + 1)]

GeometryFaceSet ==
    {GeometryFace(s, a) : s \in 0..MaxIndex, a \in 3..MaxArity}

RECURSIVE SeqsUpTo(_, _)
SeqsUpTo(S, len) ==
    IF len = 0 THEN {<<>>}
    ELSE LET shorter == SeqsUpTo(S, len - 1)
         IN  shorter \cup {Append(q, x) : q \in {r \in shorter : Len(r) = len - 1}, x \in S}

GeometryFaces == SeqsUpTo(GeometryFaceSet, MaxFaces)

\* Face buffers the remote service may hand back.
RemoteBuffers == SeqsUpTo((0 - MaxNeg)..MaxCount, MaxBuf)

----------------------------------------------------------------------------
\* Speckle.mesh_to_speckle_mesh, the face loop: n = len(f), then the indices.

EncodeFace_Shorthand(f) == <<Len(f) - 3>> \o f
EncodeFace(f) == <<Len(f)>> \o f

RECURSIVE mesh_to_speckle_mesh_faces(_)
mesh_to_speckle_mesh_faces(fl) ==
    IF fl = <<>> THEN <<>>
    ELSE EncodeFace(Head(fl)) \o mesh_to_speckle_mesh_faces(Tail(fl))

NoReturn == [kind |-> "pending", val |-> <<>>]
ReturnNone == [kind |-> "None", val |-> <<>>]
ReturnList(l) == [kind |-> "list", val |-> l]
Raised == [kind |-> "raised", val |-> <<>>]

\* add_faces: if n < 3: n += 3
AdjustCount(n) == IF n < 3 THEN n + 3 ELSE n

MeshInit ==
    /\ \/ origin = "local" /\ geomFaces \in GeometryFaces
       \/ origin = "remote" /\ geomFaces = <<>>
    /\ sfaces = <<>>
    /\ mpc = "idle"
    /\ dec_i = 0
    /\ dec_raw = 0
    /\ dec_n = 0
    /\ faces = <<>>
    /\ mret = NoReturn

\* Speckle.mesh_to_speckle_mesh(topology): the face buffer of the mesh record.
MeshToSpeckleMesh ==
    /\ mpc = "idle"
    /\ origin = "local"
    /\ sfaces' = mesh_to_speckle_mesh_faces(geomFaces)
    /\ mpc' = "wire"
    /\ UNCHANGED <<origin, geomFaces, dec_i, dec_raw, dec_n, faces, mret>>
    /\ UNCHANGED <<figureVars, remoteVars, exportVars, lookupVars, traceVars,
                 vectorVars>>

\* Speckle.Object: operations.receive hands back a mesh record of the service.
ReceiveMesh ==
    /\ mpc = "idle"
    /\ origin = "remote"
    /\ \E buf \in RemoteBuffers : sfaces' = buf
    /\ mpc' = "wire"
    /\ UNCHANGED <<origin, geomFaces, dec_i, dec_raw, dec_n, faces, mret>>
    /\ UNCHANGED <<figureVars, remoteVars, exportVars, lookupVars, traceVars,
                 vectorVars>>

\* add_faces, up to the loop: an empty buffer skips the body, and the
\* function falls off its end without a return statement.
AddFacesStart ==
    /\ mpc = "wire"
    /\ IF Len(sfaces) > 0
       THEN /\ mpc' = "loop"
            /\ mret' = mret
       ELSE /\ mpc' = "done"
            /\ mret' = ReturnNone
    /\ dec_i' = 0
    /\ faces' = <<>>
    /\ UNCHANGED <<origin, geomFaces, sfaces, dec_raw, dec_n>>
    /\ UNCHANGED <<figureVars, remoteVars, exportVars, lookupVars, traceVars,
                 vectorVars>>

\* add_faces, one iteration of while i < len(sfaces).
AddFacesIter ==
    /\ mpc = "loop"
    /\ dec_i < Len(sfaces)
    /\ Len(faces) < MaxIter
    /\ IF PyIndexOk(sfaces, dec_i)
       THEN LET raw == PyIndex(sfaces, dec_i)
                n == AdjustCount(raw)
                i1 == dec_i + 1
            IN  /\ dec_raw' = raw
                /\ dec_n' = n
                /\ faces' = Append(faces, PySlice(sfaces, i1, i1 + n))
                /\ dec_i' = i1 + n
                /\ UNCHANGED <<mpc, mret>>
       ELSE /\ mpc' = "done"
            /\ mret' = Raised
            /\ UNCHANGED <<dec_i, dec_raw, dec_n, faces>>
    /\ UNCHANGED <<origin, geomFaces, sfaces>>
    /\ UNCHANGED <<figureVars, remoteVars, exportVars, lookupVars, traceVars,
                 vectorVars>>

\* add_faces: the loop condition fails, return faces.
AddFacesReturn ==
    /\ mpc = "loop"
    /\ ~(dec_i < Len(sfaces))
    /\ mpc' = "done"
    /\ mret' = ReturnList(faces)
    /\ UNCHANGED <<origin, geomFaces, sfaces, dec_i, dec_raw, dec_n, faces>>
    /\ UNCHANGED <<figureVars, remoteVars, exportVars, lookupVars, traceVars,
                 vectorVars>>

MeshNext ==
    \/ MeshToSpeckleMesh
    \/ ReceiveMesh
    \/ AddFacesStart
    \/ AddFacesIter
    \/ AddFacesReturn

----------------------------------------------------------------------------
\* Speckle.py: the operations that talk to the remote service.  A call is a
\* sequence of remote requests; each request succeeds or fails (the client
\* raises), as the service decides.

\* Python values passed as flags (confirm, run), and their truth value.
PyValues == {"True", "False", "None", "1", "0"}
Truthy(v) == v \in {"True", "1"}

RemoteOps ==
    {"SpeckleCommitDelete", "Send", "SpeckleSendObjects", "Object",
     "BranchesByStream", "SpeckleGlobalsByStream", "SpeckleCommitByURL",
     "SpeckleStreamByURL"}
SendOps == {"Send", "SpeckleSendObjects"}
URLOps == {"SpeckleCommitByURL", "SpeckleStreamByURL"}

\* The service before the call: one object, one commit of it on "main".
InitObjects == {1}
InitCommits == {[id |-> 1, branch |-> "main", obj |-> 1]}
BranchNames == {"main", "dev"}

\* A branch object as the caller fetched it before the call: its name and
\* the ids of branch.commits.items.
BranchArgs ==
    {[name |-> b, items |-> {c.id : c \in {d \in InitCommits : d.branch = b}}] :
        b \in BranchNames}
Keys == {"main", "data"}

DefaultArg ==
    [confirm |-> "False", run |-> "False", key |-> "data",
     branch |-> [name |-> "main", items |-> {1}], commit |-> 1]

ArgsOf(op) ==
    IF op = "SpeckleCommitDelete"
    THEN {[DefaultArg EXCEPT !.confirm = c, !.commit = k] :
            c \in PyValues, k \in 1..MaxCommit}
    ELSE IF op \in SendOps
    THEN {[DefaultArg EXCEPT !.run = r, !.key = k, !.branch = b] :
            r \in PyValues, k \in Keys, b \in BranchArgs}
    ELSE {DefaultArg}

RPending == [kind |-> "pending", val |-> "", id |-> 0]
RRaised == [kind |-> "raised", val |-> "", id |-> 0]
RReturn(v, k) == [kind |-> "returned", val |-> v, id |-> k]

\* What a failed remote request does to the call: SpeckleCommitDelete wraps
\* its request in try/except and returns False; no other operation catches.
RemoteFailure_Swallow(op) == RReturn("None", 0)
RemoteFailure_NoCatch(op) == RRaised
RemoteFailure(op) ==
    IF op = "SpeckleCommitDelete" THEN RReturn("False", 0) ELSE RRaised

\* One request in the call's log: its kind, whether it succeeded, and what the
\* service answered (an id, or a value).
Request(kind, ok, id, resp) == [req |-> kind, ok |-> ok, id |-> id, resp |-> resp]

SetMax(S) == CHOOSE x \in S : \A y \in S : y <= x
FreshId(S) == IF S = {} THEN 1 ELSE SetMax(S) + 1

\* The call fails at request kind: the request is logged and the call ends.
FailAt(kind) ==
    /\ rlog' = Append(rlog, Request(kind, FALSE, 0, ""))
    /\ rret' = RemoteFailure(rop)
    /\ rpc' = "done"

RemoteInit ==
    /\ rop \in RemoteOps
    /\ rarg \in ArgsOf(rop)
    /\ rpc = "start"
    /\ rlog = <<>>
    /\ rpending = <<>>
    /\ rret = RPending
    /\ srvObjects = InitObjects
    /\ srvCommits = InitCommits

\* SpeckleCommitDelete: if confirm: (the request) else return False.
DeleteConfirmed_Always(confirm) == TRUE
DeleteConfirmed(confirm) == Truthy(confirm)

SpeckleCommitDelete ==
    /\ rop = "SpeckleCommitDelete"
    /\ rpc = "start"
    /\ IF DeleteConfirmed(rarg.confirm)
       THEN \/ /\ FailAt("commit.delete")
               /\ UNCHANGED srvCommits
            \/ \E deleted \in {"True", "False"} :
                 /\ deleted = "True" => \E c \in srvCommits : c.id = rarg.commit
                 /\ rlog' = Append(rlog, Request("commit.delete", TRUE, 0, deleted))
                 /\ srvCommits' =
                        IF deleted = "True"
                        THEN {c \in srvCommits : c.id # rarg.commit}
                        ELSE srvCommits
                 /\ rret' = RReturn(deleted, 0)
                 /\ rpc' = "done"
       ELSE /\ rret' = RReturn("False", 0)
            /\ rpc' = "done"
            /\ UNCHANGED <<rlog, srvCommits>>
    /\ UNCHANGED <<rop, rarg, rpending, srvObjects>>
    /\ UNCHANGED <<figureVars, meshVars, exportVars, lookupVars, traceVars,
                 vectorVars>>

\* Send / SpeckleSendObjects: if not run: return None; then operations.send.
SendUpload ==
    /\ rop \in SendOps
    /\ rpc = "start"
    /\ IF ~Truthy(rarg.run)
       THEN /\ rret' = RReturn("None", 0)
            /\ rpc' = "done"
            /\ UNCHANGED <<rlog, srvObjects>>
       ELSE \/ /\ FailAt("operations.send")
               /\ UNCHANGED srvObjects
            \/ \E obj_id \in srvObjects \cup {FreshId(srvObjects)} :
                 /\ rlog' = Append(rlog, Request("operations.send", TRUE, obj_id, ""))
                 /\ srvObjects' = srvObjects \cup {obj_id}
                 /\ rpc' = "commit"
                 /\ UNCHANGED rret
    /\ UNCHANGED <<rop, rarg, rpending, srvCommits>>
    /\ UNCHANGED <<figureVars, meshVars, exportVars, lookupVars, traceVars,
                 vectorVars>>

\* The branch name handed to client.commit.create: its third argument, which
\* is key in Send and the literal "gbxml" in SpeckleSendObjects.
CommitBranchName(op, arg) == IF op = "Send" THEN arg.key ELSE "gbxml"

\* Send / SpeckleSendObjects: client.commit.create, then the search of the new
\* commit id in branch.commits.items of the branch argument.
SendCommit ==
    /\ rop \in SendOps
    /\ rpc = "commit"
    /\ \/ /\ FailAt("commit.create")
          /\ UNCHANGED srvCommits
       \/ LET commit_id == FreshId({c.id : c \in srvCommits})
              obj_id == rlog[Len(rlog)].id
          IN  /\ rlog' = Append(rlog, Request("commit.create", TRUE, commit_id, ""))
              /\ srvCommits' = srvCommits \cup
                    {[id |-> commit_id, branch |-> CommitBranchName(rop, rarg),
                      obj |-> obj_id]}
              /\ rret' = IF commit_id \in rarg.branch.items
                         THEN RReturn("commit", commit_id)
                         ELSE RReturn("None", 0)
              /\ rpc' = "done"
    /\ UNCHANGED <<rop, rarg, rpending, srvObjects>>
    /\ UNCHANGED <<figureVars, meshVars, exportVars, lookupVars, traceVars,
                 vectorVars>>

\* mesh_to_speckle: b["@displayValue"] = Speckle.mesh_to_speckle_mesh(topology)
EncoderKey == "@displayValue"
\* Speckle.Object: return mesh_to_native(speckle_mesh["@display_value"])
DecoderKey == "@display_value"

\* Speckle.Object: operations.receive, then speckle_mesh["@display_value"].
\* The object received holds its mesh under the key of mesh_to_speckle or
\* under the key Speckle.Object reads; resp logs which.
ObjectReceive ==
    /\ rop = "Object"
    /\ rpc = "start"
    /\ \/ FailAt("operations.receive")
       \/ \E member \in {EncoderKey, DecoderKey} :
            /\ rlog' = Append(rlog, Request("operations.receive", TRUE, 0, member))
            /\ rret' = IF member = DecoderKey
                       THEN RReturn("topology", 0)
                       ELSE RRaised
            /\ rpc' = "done"
    /\ UNCHANGED <<rop, rarg, rpending, srvObjects, srvCommits>>
    /\ UNCHANGED <<figureVars, meshVars, exportVars, lookupVars, traceVars,
                 vectorVars>>

\* BranchesByStream: bList = client.branch.list(stream.id)
BranchList ==
    /\ rop = "BranchesByStream"
    /\ rpc = "start"
    /\ \/ /\ FailAt("branch.list")
          /\ UNCHANGED rpending
       \/ \E bList \in SeqsUpTo(BranchNames, MaxBranches) :
            /\ rlog' = Append(rlog, Request("branch.list", TRUE, Len(bList), ""))
            /\ rpending' = bList
            /\ rpc' = "get"
            /\ UNCHANGED rret
    /\ UNCHANGED <<rop, rarg, srvObjects, srvCommits>>
    /\ UNCHANGED <<figureVars, meshVars, exportVars, lookupVars, traceVars,
                 vectorVars>>

\* BranchesByStream: one iteration of for b in bList: client.branch.get.
BranchGet ==
    /\ rop = "BranchesByStream"
    /\ rpc = "get"
    /\ rpending # <<>>
    /\ \/ /\ FailAt("branch.get")
          /\ UNCHANGED rpending
       \/ /\ rlog' = Append(rlog, Request("branch.get", TRUE, 0, Head(rpending)))
          /\ rpending' = Tail(rpending)
          /\ UNCHANGED <<rret, rpc>>
    /\ UNCHANGED <<rop, rarg, srvObjects, srvCommits>>
    /\ UNCHANGED <<figureVars, meshVars, exportVars, lookupVars, traceVars,
                 vectorVars>>

\* BranchesByStream: return branches.
BranchesReturn ==
    /\ rop = "BranchesByStream"
    /\ rpc = "get"
    /\ rpending = <<>>
    /\ rret' = RReturn("list", Len(rlog) - 1)
    /\ rpc' = "done"
    /\ UNCHANGED <<rop, rarg, rlog, rpending, srvObjects, srvCommits>>
    /\ UNCHANGED <<figureVars, meshVars, exportVars, lookupVars, traceVars,
                 vectorVars>>

\* SpeckleGlobalsByStream: client.branch.get(stream.id, "globals"); without a
\* commit on the branch the call returns None.
GlobalsBranchGet ==
    /\ rop = "SpeckleGlobalsByStream"
    /\ rpc = "start"
    /\ \/ FailAt("branch.get")
       \/ \E nitems \in 0..1 :
            /\ rlog' = Append(rlog, Request("branch.get", TRUE, nitems, "globals"))
            /\ IF nitems > 0
               THEN rpc' = "receive" /\ UNCHANGED rret
               ELSE rpc' = "done" /\ rret' = RReturn("None", 0)
    /\ UNCHANGED <<rop, rarg, rpending, srvObjects, srvCommits>>
    /\ UNCHANGED <<figureVars, meshVars, exportVars, lookupVars, traceVars,
                 vectorVars>>

\* SpeckleGlobalsByStream: operations.receive of the latest commit's object.
GlobalsReceive ==
    /\ rop = "SpeckleGlobalsByStream"
    /\ rpc = "receive"
    /\ \/ FailAt("operations.receive")
       \/ /\ rlog' = Append(rlog, Request("operations.receive", TRUE, 0, ""))
          /\ rret' = RReturn("dict", 0)
          /\ rpc' = "done"
    /\ UNCHANGED <<rop, rarg, rpending, srvObjects, srvCommits>>
    /\ UNCHANGED <<figureVars, meshVars, exportVars, lookupVars, traceVars,
                 vectorVars>>

\* SpeckleCommitByURL / SpeckleStreamByURL: client.authenticate_with_token.
URLAuthenticate ==
    /\ rop \in URLOps
    /\ rpc = "start"
    /\ \/ FailAt("authenticate_with_token")
       \/ /\ rlog' = Append(rlog, Request("authenticate_with_token", TRUE, 0, ""))
          /\ rpc' = "streams"
          /\ UNCHANGED rret
    /\ UNCHANGED <<rop, rarg, rpending, srvObjects, srvCommits>>
    /\ UNCHANGED <<figureVars, meshVars, exportVars, lookupVars, traceVars,
                 vectorVars>>

\* SpeckleCommitByURL / SpeckleStreamByURL: client.stream.list(), streamByID;
\* SpeckleStreamByURL returns the stream, or None when no id matches.
URLStreamList ==
    /\ rop \in URLOps
    /\ rpc = "streams"
    /\ \/ FailAt("stream.list")
       \/ \E found \in BOOLEAN :
            /\ rlog' = Append(rlog, Request("stream.list", TRUE, 0, ""))
            /\ IF rop = "SpeckleStreamByURL"
               THEN /\ rret' = IF found THEN RReturn("stream", 0) ELSE RReturn("None", 0)
                    /\ rpc' = "done"
               ELSE /\ rpc' = "commits"
                    /\ UNCHANGED rret
    /\ UNCHANGED <<rop, rarg, rpending, srvObjects, srvCommits>>
    /\ UNCHANGED <<figureVars, meshVars, exportVars, lookupVars, traceVars,
                 vectorVars>>

\* SpeckleCommitByURL: client.commit.list, commitByID; the commit, or None
\* when no id matches.
URLCommitList ==
    /\ rop = "SpeckleCommitByURL"
    /\ rpc = "commits"
    /\ \/ FailAt("commit.list")
       \/ \E found \in BOOLEAN :
            /\ rlog' = Append(rlog, Request("commit.list", TRUE, 0, ""))
            /\ rret' = IF found THEN RReturn("commit", 1) ELSE RReturn("None", 0)
            /\ rpc' = "done"
    /\ UNCHANGED <<rop, rarg, rpending, srvObjects, srvCommits>>
    /\ UNCHANGED <<figureVars, meshVars, exportVars, lookupVars, traceVars,
                 vectorVars>>

RemoteNext ==
    \/ SpeckleCommitDelete
    \/ SendUpload
    \/ SendCommit
    \/ ObjectReceive
    \/ BranchList
    \/ BranchGet
    \/ BranchesReturn
    \/ GlobalsBranchGet
    \/ GlobalsReceive
    \/ URLAuthenticate
    \/ URLStreamList
    \/ URLCommitList

----------------------------------------------------------------------------
\* Plotly.py: FigureExportToJSON / PDF / PNG / SVG.  A path is a sequence of
\* characters; the file system maps each existing file to its content.

ExportOps == {"JSON", "PDF", "PNG", "SVG"}
ImageOps == {"PDF", "PNG", "SVG"}

\* str.lower(), on the characters that occur.
LowerChar(c) ==
    CASE c = "J" -> "j" [] c = "S" -> "s" [] c = "O" -> "o" [] c = "N" -> "n"
      [] c = "P" -> "p" [] c = "D" -> "d" [] c = "F" -> "f" [] c = "G" -> "g"
      [] c = "V" -> "v" [] c = "A" -> "a" [] OTHER -> c
PyLower(str) == [k \in 1..Len(str) |-> LowerChar(str[k])]

\* The extension literal each operation compares with and appends.
Ext(op) ==
    CASE op = "JSON" -> <<".", "j", "s", "o", "n">>
      [] op = "PDF" -> <<".", "p", "d", "f">>
      [] op = "PNG" -> <<".", "p", "n", "g">>
      [] op = "SVG" -> <<".", "s", "v", "g">>

\* The width of the tail that is compared: path[len(path)-5:len(path)] for
\* JSON, path[len(path)-4:len(path)] for the image formats.
ExtWidth(op) == IF op = "JSON" THEN 5 ELSE 4

\* ext = path[len(path)-w:len(path)]; if ext.lower() != ".ext": path = path+".ext"
NormalizePath_CaseSensitive(op, path) ==
    IF PySlice(path, Len(path) - ExtWidth(op), Len(path)) # Ext(op)
    THEN path \o Ext(op) ELSE path
NormalizePath(op, path) ==
    IF PyLower(PySlice(path, Len(path) - ExtWidth(op), Len(path))) # Ext(op)
    THEN path \o Ext(op) ELSE path

\* overwrite == True, overwrite == False
PyEqTrue(v) == v \in {"True", "1"}
PyEqFalse(v) == v \in {"False", "0"}

\* The paths a caller passes: a stem and an ending.
Endings ==
    {<<>>, <<".", "j", "s", "o", "n">>, <<".", "J", "S", "O", "N">>,
     <<".", "J", "s", "o", "n">>, <<".", "j", "s", "o">>, <<"j", "s", "o", "n">>,
     <<".", "p", "d", "f">>, <<".", "P", "D", "F">>, <<".", "p", "n", "g">>,
     <<".", "P", "n", "G">>, <<".", "s", "v", "g">>, <<".", "S", "V", "G">>,
     <<".", "p", "n">>, <<"g">>}
PathStrings == {st \o en : st \in SeqsUpTo({"a"}, MaxStem), en \in Endings}
PathArgs ==
    {[isStr |-> TRUE, chars |-> q] : q \in PathStrings}
        \cup {[isStr |-> FALSE, chars |-> <<>>]}

XPending == [kind |-> "pending", val |-> ""]
XRaised == [kind |-> "raised", val |-> ""]
XReturn(v) == [kind |-> "returned", val |-> v]

\* The file system with file q holding content c.
WriteFile(files, q, c) ==
    [r \in (DOMAIN files) \cup {q} |-> IF r = q THEN c ELSE files[r]]

ExportInit ==
    /\ xop \in ExportOps
    /\ xfig \in BOOLEAN
    /\ xpath \in PathArgs
    /\ xoverwrite \in PyValues
    /\ xpc = "start"
    /\ xlocal = <<>>
    /\ xexists = FALSE
    /\ xret = XPending
    /\ fs = <<>>

\* The type checks of figure and path, then the extension.
ExportValidate ==
    /\ xpc = "start"
    /\ IF ~xfig \/ ~xpath.isStr
       THEN /\ xret' = XReturn("None")
            /\ xpc' = "done"
            /\ UNCHANGED xlocal
       ELSE /\ xlocal' = NormalizePath(xop, xpath.chars)
            /\ xpc' = IF xop = "JSON" THEN "open" ELSE "check"
            /\ UNCHANGED xret
    /\ UNCHANGED <<xop, xfig, xpath, xoverwrite, xexists, fs>>
    /\ UNCHANGED <<figureVars, meshVars, remoteVars, lookupVars, traceVars,
                 vectorVars>>

\* FigureExportToJSON: open(path, "w") if overwrite == True else open(path, "x")
OpenMode_AlwaysW(overwrite) == "w"
OpenMode(overwrite) == IF PyEqTrue(overwrite) THEN "w" ELSE "x"

\* FigureExportToJSON: the open; "x" fails on an existing file, "w" creates
\* or truncates; any failure of open is printed and None is returned.
JSONOpen ==
    /\ xop = "JSON"
    /\ xpc = "open"
    /\ \/ /\ OpenMode(xoverwrite) = "x" => xlocal \notin DOMAIN fs
          /\ fs' = WriteFile(fs, xlocal, "empty")
          /\ xpc' = "write"
          /\ UNCHANGED xret
       \/ /\ xret' = XReturn("None")
          /\ xpc' = "done"
          /\ UNCHANGED fs
    /\ UNCHANGED <<xop, xfig, xpath, xoverwrite, xlocal, xexists>>
    /\ UNCHANGED <<figureVars, meshVars, remoteVars, lookupVars, traceVars,
                 vectorVars>>

\* FigureExportToJSON: plotly.io.write_json, f.close(), return True; an
\* exception of write_json leaves the call, and the opened file stays.
JSONWrite ==
    /\ xop = "JSON"
    /\ xpc = "write"
    /\ \/ /\ fs' = WriteFile(fs, xlocal, "json")
          /\ xret' = XReturn("True")
       \/ /\ xret' = XRaised
          /\ UNCHANGED fs
    /\ xpc' = "done"
    /\ UNCHANGED <<xop, xfig, xpath, xoverwrite, xlocal, xexists>>
    /\ UNCHANGED <<figureVars, meshVars, remoteVars, lookupVars, traceVars,
                 vectorVars>>

\* FigureExportToPDF/PNG/SVG: if overwrite == False and os.path.exists(path)
ImageGuard_Never(overwrite, exists) == FALSE
ImageGuard(overwrite, exists) == PyEqFalse(overwrite) /\ exists

ImageCheck ==
    /\ xop \in ImageOps
    /\ xpc = "check"
    /\ xexists' = (xlocal \in DOMAIN fs)
    /\ IF ImageGuard(xoverwrite, xlocal \in DOMAIN fs)
       THEN /\ xret' = XReturn("None")
            /\ xpc' = "done"
       ELSE /\ xpc' = "write"
            /\ UNCHANGED xret
    /\ UNCHANGED <<xop, xfig, xpath, xoverwrite, xlocal, fs>>
    /\ UNCHANGED <<figureVars, meshVars, remoteVars, lookupVars, traceVars,
                 vectorVars>>

\* FigureExportToPDF/PNG/SVG: plotly.io.write_image(figure, path, ...), return
\* True; write_image replaces whatever is at path, or raises.
ImageWrite ==
    /\ xop \in ImageOps
    /\ xpc = "write"
    /\ \/ /\ fs' = WriteFile(fs, xlocal, "image")
          /\ xret' = XReturn("True")
       \/ /\ xret' = XRaised
          /\ UNCHANGED fs
    /\ xpc' = "done"
    /\ UNCHANGED <<xop, xfig, xpath, xoverwrite, xlocal, xexists>>
    /\ UNCHANGED <<figureVars, meshVars, remoteVars, lookupVars, traceVars,
                 vectorVars>>

\* Another process creates a file, at the path as passed or as normalized.
OtherProcessCreates ==
    /\ xpath.isStr
    /\ \E q \in {xpath.chars, NormalizePath(xop, xpath.chars)} :
         /\ q \notin DOMAIN fs
         /\ fs' = WriteFile(fs, q, "other")
    /\ UNCHANGED <<xop, xfig, xpath, xoverwrite, xpc, xlocal, xexists, xret>>
    /\ UNCHANGED <<figureVars, meshVars, remoteVars, lookupVars, traceVars,
                 vectorVars>>

ExportNext ==
    \/ ExportValidate
    \/ JSONOpen
    \/ JSONWrite
    \/ ImageCheck
    \/ ImageWrite
    \/ OtherProcessCreates

----------------------------------------------------------------------------
\* Plotly.py: the face section of DataByTopology. Every corner of every
\* triangle is resolved to its index in the original vertex array tp_verts.

\* Distances and tolerances are counted in units of the default tolerance
\* 0.0001: TolScale units make one distance unit.
TolScale == 10000
TolDefault == 1
\* the loop stops at tolerance 3
TolCap == 3 * TolScale
\* the loop multiplies the tolerance by 10
TolFactor == 10

\* i == None
NoIndex == -1

\* The tolerances a caller supplies: zero, the default, one distance unit
\* and the cap itself.
Tolerances == {0, TolDefault, TolScale, TolCap}

\* The original vertices lie on a line, VertexSpacing apart; positions are
\* 0-based as the indices of the list tp_verts are.
VertexSpacing == 100
NumVerts == 3
tp_verts == [k \in 0..(NumVerts - 1) |-> k * VertexSpacing]

\* A corner of a triangle coincides with an original vertex, or lies a
\* little off it, or lies farther from every vertex than the cap.
Offsets == {0, 5, 4 * TolScale}

\* The triangle on the vertices start, start+1, start+2 whose corner c lies
\* off its vertex by off.
Triangle(start, c, off) ==
    [n \in 1..3 |-> tp_verts[(start + n - 1) % NumVerts]
                       + (IF n = c THEN off ELSE 0)]
Triangles ==
    {Triangle(start, c, off) : start \in 0..(NumVerts - 1), c \in 1..3,
                               off \in Offsets}

Distance(p, q) == IF p < q THEN q - p ELSE p - q

\* Vertex.Index: the index of the first vertex of vertices that lies within
\* the tolerance of vertex, None if there is none.
VertexIndex(vertex, vertices, tol) ==
    LET hits == {k \in DOMAIN vertices : Distance(vertex, vertices[k]) < tol}
    IN  IF hits = {} THEN NoIndex
        ELSE CHOOSE k \in hits : \A h \in hits : k <= h

\* tolerance = orig_tolerance, for every corner
CornerTolerance_Carried(orig, cur) == cur
CornerTolerance(orig, cur) == orig

\* while i == None and tolerance < 3
LoopGuard(i, tol) == i = NoIndex /\ tol < TolCap

\* if not i == None
KeepCorner(i) == ~(i = NoIndex)

\* if len(temp_f) > 2
KeepFace_Always(f) == TRUE
KeepFace(f) == Len(f) > 2

\* The state at the head of the loop over the triangles: faces is empty and
\* orig_tolerance holds the tolerance of the caller.
\* The topology face of every triangle: Face.Triangulate is called face by
\* face, so the triangles of one face follow each other.
TriangleOwners(n) ==
    {o \in [1..n -> 1..MaxTriangles] :
        /\ n > 0 => o[1] = 1
        /\ \A k \in 1..(n - 1) : o[k + 1] \in {o[k], o[k] + 1}}

\* f_dictionaries = []; for tri in temp_faces: ... if faceLabelKey or
\* faceGroupKey: f_dictionaries.append(Topology.Dictionary(tp_face))
FaceDictionaries(keyed_, owners) == IF keyed_ THEN owners ELSE <<>>

\* faceData: for m, f in enumerate(faces): ... if len(dictionaries) > 0:
\* d = dictionaries[m]. NoIndex stands for a face that reads no dictionary.
FaceLabels(keyed_, fl, dicts) ==
    IF keyed_
    THEN [m \in 1..Len(fl) |-> IF Len(dicts) > 0 THEN dicts[m] ELSE NoIndex]
    ELSE <<>>

LookupInit ==
    /\ ntri \in 0..MaxTriangles
    /\ ntris = 0
    /\ tri = <<>>
    /\ ncorner = 0
    /\ tolerance \in Tolerances
    /\ orig_tolerance = tolerance
    /\ ix = NoIndex
    /\ temp_f = <<>>
    /\ dfaces = <<>>
    /\ ijk = <<>>
    /\ lookups = <<>>
    /\ lpc = "triangles"
    /\ fkeyed \in BOOLEAN
    /\ towners \in TriangleOwners(ntri)
    /\ f_dictionaries = FaceDictionaries(fkeyed, towners)
    /\ fsource = <<>>
    /\ flabels = <<>>

\* for tri in triangles: ... temp_f = []
NextTriangle ==
    /\ lpc = "triangles"
    /\ ntri > 0
    /\ \E t \in Triangles : tri' = t
    /\ ntri' = ntri - 1
    /\ ntris' = ntris + 1
    /\ ncorner' = 0
    /\ temp_f' = <<>>
    /\ lpc' = "corners"
    /\ UNCHANGED <<orig_tolerance, tolerance, ix, dfaces, ijk, lookups>>
    /\ UNCHANGED <<fkeyed, towners, f_dictionaries, fsource, flabels>>
    /\ UNCHANGED <<figureVars, meshVars, remoteVars, exportVars,
                   traceVars, vectorVars>>

\* for w_v in w_vertices: i = None; tolerance = orig_tolerance
NextCorner ==
    /\ lpc = "corners"
    /\ ncorner < Len(tri)
    /\ ncorner' = ncorner + 1
    /\ ix' = NoIndex
    /\ tolerance' = CornerTolerance(orig_tolerance, tolerance)
    /\ lookups' = <<>>
    /\ lpc' = "while"
    /\ UNCHANGED <<ntri, ntris, tri, orig_tolerance, temp_f, dfaces, ijk>>
    /\ UNCHANGED <<fkeyed, towners, f_dictionaries, fsource, flabels>>
    /\ UNCHANGED <<figureVars, meshVars, remoteVars, exportVars,
                   traceVars, vectorVars>>

\* One pass of the body of the while loop.
Lookup ==
    /\ lpc = "while"
    /\ LoopGuard(ix, tolerance)
    /\ Len(lookups) < MaxLookups
    /\ LET found == VertexIndex(tri[ncorner], tp_verts, tolerance)
       IN  /\ ix' = found
           /\ lookups' = Append(lookups, [tol |-> tolerance, res |-> found])
    /\ tolerance' = tolerance * TolFactor
    /\ UNCHANGED <<ntri, ntris, tri, ncorner, orig_tolerance, temp_f, dfaces,
                   ijk, lpc>>
    /\ UNCHANGED <<fkeyed, towners, f_dictionaries, fsource, flabels>>
    /\ UNCHANGED <<figureVars, meshVars, remoteVars, exportVars,
                   traceVars, vectorVars>>

\* The while loop is left: if not i == None: temp_f.append(i)
CornerDone ==
    /\ lpc = "while"
    /\ ~LoopGuard(ix, tolerance)
    /\ temp_f' = IF KeepCorner(ix) THEN Append(temp_f, ix) ELSE temp_f
    /\ lpc' = "corners"
    /\ UNCHANGED <<ntri, ntris, tri, ncorner, orig_tolerance, tolerance, ix,
                   dfaces, ijk, lookups>>
    /\ UNCHANGED <<fkeyed, towners, f_dictionaries, fsource, flabels>>
    /\ UNCHANGED <<figureVars, meshVars, remoteVars, exportVars,
                   traceVars, vectorVars>>

\* The corners are exhausted: if len(temp_f) > 2: faces.append(temp_f)
TriangleDone ==
    /\ lpc = "corners"
    /\ ncorner = Len(tri)
    /\ dfaces' = IF KeepFace(temp_f) THEN Append(dfaces, temp_f) ELSE dfaces
    /\ fsource' = IF KeepFace(temp_f)
                  THEN Append(fsource, towners[ntris]) ELSE fsource
    /\ lpc' = "triangles"
    /\ UNCHANGED <<ntri, ntris, tri, ncorner, orig_tolerance, tolerance, ix,
                   temp_f, ijk, lookups>>
    /\ UNCHANGED <<fkeyed, towners, f_dictionaries, flabels>>
    /\ UNCHANGED <<figureVars, meshVars, remoteVars, exportVars,
                   traceVars, vectorVars>>

\* faceData: i.append(f[0]); j.append(f[1]); k.append(f[2]) for every face
MeshIJK(fl) == [m \in 1..Len(fl) |-> <<fl[m][1], fl[m][2], fl[m][3]>>]

\* The triangles are exhausted: data.append(faceData(vertices, faces, ...))
FaceTrace ==
    /\ lpc = "triangles"
    /\ ntri = 0
    /\ ijk' = MeshIJK(dfaces)
    /\ flabels' = FaceLabels(fkeyed, dfaces, f_dictionaries)
    /\ lpc' = "done"
    /\ UNCHANGED <<ntri, ntris, tri, ncorner, orig_tolerance, tolerance, ix,
                   temp_f, dfaces, lookups>>
    /\ UNCHANGED <<fkeyed, towners, f_dictionaries, fsource>>
    /\ UNCHANGED <<figureVars, meshVars, remoteVars, exportVars,
                   traceVars, vectorVars>>

LookupNext ==
    \/ NextTriangle
    \/ NextCorner
    \/ Lookup
    \/ CornerDone
    \/ TriangleDone
    \/ FaceTrace

----------------------------------------------------------------------------
\* Plotly.py: the colors of the traces built by vertexData, edgeData and
\* faceData. The three functions share the code that resolves the group of
\* every element to a color.

TraceKinds == {"vertex", "edge", "face"}

\* Python values of the group machinery: an int, a str (v numbers the
\* distinct strings) or None.
PyInt(n) == [t |-> "int", v |-> n]
PyStr(n) == [t |-> "str", v |-> n]
PyNone == [t |-> "none", v |-> 0]

\* not x, for None, an int or a str (PyStr(0) is the empty string)
PyNot(x) == x.t = "none" \/ x.v = 0

\* x or None
OrNone(x) == IF PyNot(x) THEN PyNone ELSE x

IsNumber(x) == x.t = "int"

\* The groups lists of a caller: none, numeric ones, a categorical one.
GroupLists ==
    {<<>>, <<PyStr(1), PyStr(2)>>}
        \cup {[k \in 1..n |-> PyInt(k)] : n \in 1..(MaxGroup - 1)}

\* The minGroup and maxGroup a caller passes.
GroupBounds == {PyNone} \cup {PyInt(n) : n \in 0..1}

\* Dictionary.ValueAtKey(d, key=groupKey) of one element: a number, a
\* category, or nothing (no dictionary, or no such key).
GroupValues ==
    {PyNone} \cup {PyInt(n) : n \in 0..MaxGroup} \cup {PyStr(n) : n \in 1..2}

\* The colors: the one the caller passed, the ones Color.ByValueInRange
\* computes (written as an rgb string), and what is appended to groupList
\* when no color can be computed (len(groups)).
CallerColor == [src |-> "caller", v |-> 0, lo |-> 0, hi |-> 0]
ByValueInRange(value, minValue, maxValue) ==
    [src |-> "scale", v |-> value, lo |-> minValue, hi |-> maxValue]
Fallback(gl) == [src |-> "len", v |-> Len(gl), lo |-> 0, hi |-> 0]

\* min(groups), max(groups) of a non-empty numeric list
RECURSIVE MinOf(_)
MinOf(gl) ==
    IF Len(gl) = 1 THEN gl[1].v ELSE Min2(gl[1].v, MinOf(Tail(gl)))
RECURSIVE MaxOf(_)
MaxOf(gl) ==
    IF Len(gl) = 1 THEN gl[1].v ELSE Max2(gl[1].v, MaxOf(Tail(gl)))

\* if not minGroup: minGroup = min(groups)
ResolveMin(arg, gl) == IF PyNot(arg) THEN PyInt(MinOf(gl)) ELSE arg
\* if not maxGroup: maxGroup = max(groups)
ResolveMax(arg, gl) == IF PyNot(arg) THEN PyInt(MaxOf(gl)) ELSE arg

\* The range of the groups, as the head of the three functions computes it.
GroupRange(lo, hi, gl) ==
    IF Len(gl) > 0
    THEN IF IsNumber(gl[1])
         THEN [lo |-> ResolveMin(lo, gl), hi |-> ResolveMax(hi, gl)]
         ELSE [lo |-> PyInt(0), hi |-> PyInt(Len(gl) - 1)]
    ELSE [lo |-> PyInt(0), hi |-> PyInt(1)]

\* groups.index(group): the 0-based position, or NoIndex for ValueError
GroupsIndex(gl, g) ==
    LET hits == {k \in 1..Len(gl) : gl[k] = g}
    IN  IF hits = {} THEN NoIndex
        ELSE (CHOOSE k \in hits : \A h \in hits : k <= h) - 1

\* if group < minGroup: group = minGroup; if group > maxGroup: ...
Clamp(g, lo, hi) ==
    LET g1 == IF g < lo THEN lo ELSE g
    IN  IF g1 > hi THEN hi ELSE g1

\* The body of the try statement of one element: the color computed from
\* its group, or Raised when the statement raises.
ElementColor(value, gl, lo, hi) ==
    LET group == OrNone(value)
    IN  IF IsNumber(group)
        THEN IF IsNumber(lo) /\ IsNumber(hi)
             THEN [raised |-> FALSE,
                   color |-> ByValueInRange(Clamp(group.v, lo.v, hi.v),
                                            lo.v, hi.v)]
             ELSE [raised |-> TRUE, color |-> CallerColor]
        ELSE IF GroupsIndex(gl, group) = NoIndex
             THEN [raised |-> TRUE, color |-> CallerColor]
             ELSE [raised |-> FALSE,
                   color |-> ByValueInRange(GroupsIndex(gl, group),
                                            lo.v, hi.v)]

SeqToSet(sq) == {sq[n] : n \in 1..Len(sq)}

\* if len(list(set(groupList))) < 2
Collapses(gl) == Cardinality(SeqToSet(gl)) < 2

\* The colors handed to the trace: marker color of the vertex trace, line
\* color of the edge trace, color and facecolor of the mesh trace.
Flat(c) == [flat |-> TRUE, one |-> c, each |-> <<>>]
PerElement(gl) == [flat |-> FALSE, one |-> CallerColor, each |-> gl]
NoColors == [flat |-> FALSE, one |-> CallerColor, each |-> <<>>]
NoTrace == [color |-> NoColors, facecolor |-> NoColors, set |-> FALSE]

TraceColors(kind, gl, c) ==
    IF kind = "face"
    THEN [color |-> Flat(c),
          facecolor |-> IF Collapses(gl) THEN NoColors ELSE PerElement(gl),
          set |-> TRUE]
    ELSE [color |-> IF Collapses(gl) THEN Flat(c) ELSE PerElement(gl),
          facecolor |-> NoColors,
          set |-> TRUE]

TraceInit ==
    /\ tkind \in TraceKinds
    /\ keyed \in BOOLEAN
    /\ groups \in GroupLists
    /\ minGroupArg \in GroupBounds
    /\ maxGroupArg \in GroupBounds
    /\ minGroup = minGroupArg
    /\ maxGroup = maxGroupArg
    /\ dictionaries \in UNION {[1..n -> GroupValues] : n \in 0..MaxElems}
    /\ tm = 0
    /\ color = CallerColor
    /\ groupList = <<>>
    /\ trace = NoTrace
    /\ tpc = "range"

\* if labelKey or groupKey: ... minGroup and maxGroup are settled
TraceRange ==
    /\ tpc = "range"
    /\ IF keyed
       THEN /\ minGroup' = GroupRange(minGroup, maxGroup, groups).lo
            /\ maxGroup' = GroupRange(minGroup, maxGroup, groups).hi
            /\ tpc' = "elements"
       ELSE /\ UNCHANGED <<minGroup, maxGroup>>
            /\ tpc' = "return"
    /\ UNCHANGED <<tkind, keyed, groups, minGroupArg, maxGroupArg,
                   dictionaries, tm, color, groupList, trace>>
    /\ UNCHANGED <<figureVars, meshVars, remoteVars, exportVars,
                   lookupVars, vectorVars>>

\* One pass of the loop over the elements.
TraceElement ==
    /\ tpc = "elements"
    /\ tm < Len(dictionaries)
    /\ tm' = tm + 1
    /\ LET r == ElementColor(dictionaries[tm + 1], groups, minGroup, maxGroup)
       IN  IF r.raised
           THEN /\ groupList' = Append(groupList, Fallback(groups))
                /\ UNCHANGED color
           ELSE /\ color' = r.color
                /\ groupList' = Append(groupList, r.color)
    /\ UNCHANGED <<tkind, keyed, groups, minGroupArg, maxGroupArg, minGroup,
                   maxGroup, dictionaries, trace, tpc>>
    /\ UNCHANGED <<figureVars, meshVars, remoteVars, exportVars,
                   lookupVars, vectorVars>>

\* The loop is left.
TraceElementsDone ==
    /\ tpc = "elements"
    /\ tm = Len(dictionaries)
    /\ tpc' = "return"
    /\ UNCHANGED <<tkind, keyed, groups, minGroupArg, maxGroupArg, minGroup,
                   maxGroup, dictionaries, tm, color, groupList, trace>>
    /\ UNCHANGED <<figureVars, meshVars, remoteVars, exportVars,
                   lookupVars, vectorVars>>

\* if len(list(set(groupList))) < 2: ...; return go.Scatter3d / go.Mesh3d
TraceReturn ==
    /\ tpc = "return"
    /\ trace' = TraceColors(tkind, groupList, color)
    /\ tpc' = "done"
    /\ UNCHANGED <<tkind, keyed, groups, minGroupArg, maxGroupArg, minGroup,
                   maxGroup, dictionaries, tm, color, groupList>>
    /\ UNCHANGED <<figureVars, meshVars, remoteVars, exportVars,
                   lookupVars, vectorVars>>

TraceNext ==
    \/ TraceRange
    \/ TraceElement
    \/ TraceElementsDone
    \/ TraceReturn

----------------------------------------------------------------------------
\* Vector.py: the vector operations.

VNone == [kind |-> "None", val |-> <<>>]
VPending == [kind |-> "pending", val |-> <<>>]
VList(l) == [kind |-> "list", val |-> l]
VMatrix(mx) == [kind |-> "matrix", val |-> mx]
\* {"azimuth": az, "altitude": alt}
VDict(az, alt) == [kind |-> "dict", val |-> <<az, alt>>]

\* A vector argument: a list of three components, or something that is not
\* a list.
ListArg(v) == [isList |-> TRUE, v |-> v]
NotAList == [isList |-> FALSE, v |-> <<0, 0, 0>>]

RECURSIVE Pow10(_)
Pow10(n) == IF n = 0 THEN 1 ELSE 10 * Pow10(n - 1)

\* round() of a fixed-point number v to a multiple of unit: to the nearest
\* multiple, a tie to the even one.
RoundHalfEven(v, unit) ==
    LET q == v \div unit
        r == v % unit
    IN  IF 2 * r < unit THEN q * unit
        ELSE IF 2 * r > unit THEN (q + 1) * unit
        ELSE IF q % 2 = 0 THEN q * unit ELSE (q + 1) * unit

\* round(v, mantissa) of a number held with the given count of decimal
\* digits (0 for an integer)
RoundTo(v, mantissa, digits) ==
    IF mantissa >= digits THEN v
    ELSE RoundHalfEven(v, Pow10(digits - mantissa))

\* ---- AzimuthAltitude ----

\* Angles are held in millionths of a degree.
AngleDigits == 6
Deg == Pow10(AngleDigits)

\* The components of the vectors AzimuthAltitude is called with.
AzVectors ==
    {<<x, y, z>> : x \in {-1200, -115, -1, 0, 1, 115, 1200},
                   y \in {-1200, -115, -1, 0, 1, 115, 1200},
                   z \in {-1, 0, 1}}
AzMantissas == {0, 1, 4}

\* math.degrees(math.atan2(y, x)), to the nearest millionth of a degree
Atan2Micro(y, x) ==
    CASE y = -1200 /\ x = -1200 -> -135000000
      [] y = -1200 /\ x = -115 -> -95474128
      [] y = -1200 /\ x = -1 -> -90047746
      [] y = -1200 /\ x = 0 -> -90000000
      [] y = -1200 /\ x = 1 -> -89952254
      [] y = -1200 /\ x = 115 -> -84525872
      [] y = -1200 /\ x = 1200 -> -45000000
      [] y = -115 /\ x = -1200 -> -174525872
      [] y = -115 /\ x = -115 -> -135000000
      [] y = -115 /\ x = -1 -> -90498212
      [] y = -115 /\ x = 0 -> -90000000
      [] y = -115 /\ x = 1 -> -89501788
      [] y = -115 /\ x = 115 -> -45000000
      [] y = -115 /\ x = 1200 -> -5474128
      [] y = -1 /\ x = -1200 -> -179952254
      [] y = -1 /\ x = -115 -> -179501788
      [] y = -1 /\ x = -1 -> -135000000
      [] y = -1 /\ x = 0 -> -90000000
      [] y = -1 /\ x = 1 -> -45000000
      [] y = -1 /\ x = 115 -> -498212
      [] y = -1 /\ x = 1200 -> -47746
      [] y = 0 /\ x = -1200 -> 180000000
      [] y = 0 /\ x = -115 -> 180000000
      [] y = 0 /\ x = -1 -> 180000000
      [] y = 0 /\ x = 0 -> 0
      [] y = 0 /\ x = 1 -> 0
      [] y = 0 /\ x = 115 -> 0
      [] y = 0 /\ x = 1200 -> 0
      [] y = 1 /\ x = -1200 -> 179952254
      [] y = 1 /\ x = -115 -> 179501788
      [] y = 1 /\ x = -1 -> 135000000
      [] y = 1 /\ x = 0 -> 90000000
      [] y = 1 /\ x = 1 -> 45000000
      [] y = 1 /\ x = 115 -> 498212
      [] y = 1 /\ x = 1200 -> 47746
      [] y = 115 /\ x = -1200 -> 174525872
      [] y = 115 /\ x = -115 -> 135000000
      [] y = 115 /\ x = -1 -> 90498212
      [] y = 115 /\ x = 0 -> 90000000
      [] y = 115 /\ x = 1 -> 89501788
      [] y = 115 /\ x = 115 -> 45000000
      [] y = 115 /\ x = 1200 -> 5474128
      [] y = 1200 /\ x = -1200 -> 135000000
      [] y = 1200 /\ x = -115 -> 95474128
      [] y = 1200 /\ x = -1 -> 90047746
      [] y = 1200 /\ x = 0 -> 90000000
      [] y = 1200 /\ x = 1 -> 89952254
      [] y = 1200 /\ x = 115 -> 84525872
      [] y = 1200 /\ x = 1200 -> 45000000

AltitudeMicro(z, d2) ==
    CASE z = -1 /\ d2 = 1 -> -45000000
      [] z = -1 /\ d2 = 2 -> -35264390
      [] z = -1 /\ d2 = 13225 -> -498212
      [] z = -1 /\ d2 = 13226 -> -498193
      [] z = -1 /\ d2 = 26450 -> -352293
      [] z = -1 /\ d2 = 1440000 -> -47746
      [] z = -1 /\ d2 = 1440001 -> -47746
      [] z = -1 /\ d2 = 1453225 -> -47529
      [] z = -1 /\ d2 = 2880000 -> -33762
      [] z = 0 /\ d2 = 1 -> 0
      [] z = 0 /\ d2 = 2 -> 0
      [] z = 0 /\ d2 = 13225 -> 0
      [] z = 0 /\ d2 = 13226 -> 0
      [] z = 0 /\ d2 = 26450 -> 0
      [] z = 0 /\ d2 = 1440000 -> 0
      [] z = 0 /\ d2 = 1440001 -> 0
      [] z = 0 /\ d2 = 1453225 -> 0
      [] z = 0 /\ d2 = 2880000 -> 0
      [] z = 1 /\ d2 = 1 -> 45000000
      [] z = 1 /\ d2 = 2 -> 35264390
      [] z = 1 /\ d2 = 13225 -> 498212
      [] z = 1 /\ d2 = 13226 -> 498193
      [] z = 1 /\ d2 = 26450 -> 352293
      [] z = 1 /\ d2 = 1440000 -> 47746
      [] z = 1 /\ d2 = 1440001 -> 47746
      [] z = 1 /\ d2 = 1453225 -> 47529
      [] z = 1 /\ d2 = 2880000 -> 33762

\* The vector points straight up or down, or is the zero vector.
Pole_Unsigned(z) ==
    IF z > 0 THEN VDict(0, 90 * Deg)
    ELSE IF z < 0 THEN VDict(0, 90 * Deg)
    ELSE VNone
Pole(z) ==
    IF z > 0 THEN VDict(0, 90 * Deg)
    ELSE IF z < 0 THEN VDict(0, (0 - 90) * Deg)
    ELSE VNone

AzimuthAltitude(vector, mantissa) ==
    LET x == vector[1]
        y == vector[2]
        z == vector[3]
    IN  IF x = 0 /\ y = 0 THEN Pole(z)
        ELSE LET raw == Atan2Micro(y, x)
                 azimuth == IF raw > 90 * Deg THEN raw - 360 * Deg ELSE raw
             IN  VDict(RoundTo(90 * Deg - azimuth, mantissa, AngleDigits),
                       RoundTo(AltitudeMicro(z, x * x + y * y), mantissa,
                               AngleDigits))

\* ---- the direction constants ----

Down == <<0, 0, -1>>
East == <<1, 0, 0>>
North == <<0, 1, 0>>
NorthEast == <<1, 1, 0>>
NorthWest == <<-1, 1, 0>>
South == <<0, -1, 0>>
SouthEast == <<1, -1, 0>>
SouthWest_Mirrored == <<-1, 1, 0>>
SouthWest == <<-1, -1, 0>>
Up == <<0, 0, 1>>
West == <<-1, 0, 0>>
XAxis == <<1, 0, 0>>
YAxis == <<0, 1, 0>>
ZAxis == <<0, 0, 1>>

DirectionOps ==
    {"Down", "East", "North", "NorthEast", "NorthWest", "South", "SouthEast",
     "SouthWest", "Up", "West", "XAxis", "YAxis", "ZAxis"}

Direction(op) ==
    CASE op = "Down" -> Down
      [] op = "East" -> East
      [] op = "North" -> North
      [] op = "NorthEast" -> NorthEast
      [] op = "NorthWest" -> NorthWest
      [] op = "South" -> South
      [] op = "SouthEast" -> SouthEast
      [] op = "SouthWest" -> SouthWest
      [] op = "Up" -> Up
      [] op = "West" -> West
      [] op = "XAxis" -> XAxis
      [] op = "YAxis" -> YAxis
      [] op = "ZAxis" -> ZAxis

\* ---- Reverse and Cross ----

IntVectors ==
    {<<x, y, z>> : x \in (0 - MaxCoord)..MaxCoord,
                   y \in (0 - MaxCoord)..MaxCoord,
                   z \in (0 - MaxCoord)..MaxCoord}
VectorArgs == {ListArg(v) : v \in IntVectors} \cup {NotAList}

\* [x*-1 for x in vector]
Reverse(vector) ==
    IF ~vector.isList THEN VNone
    ELSE VList([n \in 1..Len(vector.v) |-> vector.v[n] * (0 - 1)])

\* mantissa=4
DefaultMantissa == 4
CrossMantissas == {0, DefaultMantissa}
\* Tolerances are counted in units of 0.0001 (TolScale units make 1): the
\* default, a half, and just below 1.
CrossTolerances == {TolDefault, TolScale \div 2, TolScale - 1}

\* Vector.Magnitude(vector, mantissa) < tolerance, for an integer vector.
\* The magnitude is round(sqrt(n2), mantissa), a multiple R of 10^-mantissa;
\* it is below the tolerance exactly when R <= K, K the largest multiple
\* that is below the tolerance, which is when sqrt(n2) lies below the middle
\* of K and K + 1: 4 * n2 * 100^mantissa < (2K + 1)^2.
MagnitudeBelow(vector, mantissa, tol) ==
    LET n2 == vector[1] * vector[1] + vector[2] * vector[2]
                + vector[3] * vector[3]
        K == (tol * Pow10(mantissa) - 1) \div TolScale
    IN  /\ K >= 0
        /\ n2 <= ((2 * K + 1) * (2 * K + 1) - 1)
                    \div (4 * Pow10(mantissa) * Pow10(mantissa))

\* np.cross(vecA, vecB)
CrossProduct_Flipped(a, b) ==
    <<a[2] * b[3] - a[3] * b[2],
      a[1] * b[3] - a[3] * b[1],
      a[1] * b[2] - a[2] * b[1]>>
CrossProduct(a, b) ==
    <<a[2] * b[3] - a[3] * b[2],
      a[3] * b[1] - a[1] * b[3],
      a[1] * b[2] - a[2] * b[1]>>

\* if Vector.Magnitude(vecC) < tolerance
ResultBelow_Never(vecC, tol) == FALSE
ResultBelow(vecC, tol) == MagnitudeBelow(vecC, DefaultMantissa, tol)

Cross(a, b, mantissa, tol) ==
    IF ~a.isList \/ ~b.isList THEN VNone
    ELSE IF MagnitudeBelow(a.v, mantissa, tol)
              \/ MagnitudeBelow(b.v, mantissa, tol) THEN VNone
    ELSE LET vecC == CrossProduct(a.v, b.v)
         IN  IF ResultBelow(vecC, tol) THEN VNone
             ELSE VList(<<RoundTo(vecC[1], mantissa, 0),
                          RoundTo(vecC[2], mantissa, 0),
                          RoundTo(vecC[3], mantissa, 0)>>)

\* ---- Angle ----

\* A float that is returned, in millionths, and the float nan.
VFloat(x) == [kind |-> "float", val |-> <<x>>]
VNaN == [kind |-> "nan", val |-> <<>>]

\* Angle is called with the vectors m * 10^e, m a non-zero vector with the
\* components -1, 0, 1 and e a decimal exponent.
AngleVectors ==
    {<<x, y, z>> : x \in {-1, 0, 1}, y \in {-1, 0, 1}, z \in {-1, 0, 1}}
        \ {<<0, 0, 0>>}
AngleExps == {-200, 0, 12}

\* The square of a component m * 10^e with m # 0 is 0 in double precision
\* when its decimal exponent 2e lies below the smallest double.
MinSquareExp == -330
SquareUnderflows(e) == 2 * e < MinSquareExp

SquaredNorm(m) == m[1] * m[1] + m[2] * m[2] + m[3] * m[3]

\* abs(np.log10(n_v1/n_v2)) > 10, for two norms that are not 0; the squared
\* norms of m lie within a factor 100 of each other.
OrdersApart(mA, eA, mB, eB) ==
    \/ eA - eB > 10
    \/ eB - eA > 10
    \/ eA - eB = 10 /\ SquaredNorm(mA) > SquaredNorm(mB)
    \/ eB - eA = 10 /\ SquaredNorm(mB) > SquaredNorm(mA)

\* math.degrees(np.arctan2(sinang, cosang)) to the nearest millionth of a
\* degree, for sinang = sqrt(s2) and cosang = c; positive factors of the two
\* vectors do not change the angle.
AngleMicro(s2, c) ==
    CASE s2 = 0 /\ c = -3 -> 180000000
      [] s2 = 0 /\ c = -2 -> 180000000
      [] s2 = 0 /\ c = -1 -> 180000000
      [] s2 = 0 /\ c = 1 -> 0
      [] s2 = 0 /\ c = 2 -> 0
      [] s2 = 0 /\ c = 3 -> 0
      [] s2 = 1 /\ c = -1 -> 135000000
      [] s2 = 1 /\ c = 0 -> 90000000
      [] s2 = 1 /\ c = 1 -> 45000000
      [] s2 = 2 /\ c = -2 -> 144735610
      [] s2 = 2 /\ c = -1 -> 125264390
      [] s2 = 2 /\ c = 0 -> 90000000
      [] s2 = 2 /\ c = 1 -> 54735610
      [] s2 = 2 /\ c = 2 -> 35264390
      [] s2 = 3 /\ c = -1 -> 120000000
      [] s2 = 3 /\ c = 1 -> 60000000
      [] s2 = 4 /\ c = 0 -> 90000000
      [] s2 = 6 /\ c = 0 -> 90000000
      [] s2 = 8 /\ c = -1 -> 109471221
      [] s2 = 8 /\ c = 1 -> 70528779

\* The floats Angle may return. la.norm is the square root of the sum of the
\* squares. When both norms are 0 their quotient is nan, nothing is
\* normalized and arctan2 is taken of two zeros of either sign. When one norm
\* is 0 the quotient is 0 or inf, the vectors are divided by their norms, and
\* the division by 0.0 leaves inf and nan components, from which the cross
\* product and arctan2 give nan.
Angle(a, eA, b, eB, mantissa) ==
    LET zeroA == SquareUnderflows(eA)
        zeroB == SquareUnderflows(eB)
        cr == CrossProduct(a, b)
        exact == RoundTo(AngleMicro(SquaredNorm(cr),
                                    a[1] * b[1] + a[2] * b[2] + a[3] * b[3]),
                         mantissa, AngleDigits)
    IN  IF zeroA /\ zeroB THEN {VFloat(0), VFloat(180 * Deg)}
        ELSE IF zeroA \/ zeroB THEN {VNaN}
        ELSE IF OrdersApart(a, eA, b, eB) THEN {VFloat(exact)}
        ELSE {VFloat(exact)}

\* ---- Coordinates ----

\* The components of the vectors Coordinates is called with are held in
\* thousandths.
CoordDigits == 3
Milli == Pow10(CoordDigits)
CoordVectors ==
    {<<-2500, 125, 1234>>, <<1500, 0, 125>>, <<1234, 1500, -2500>>,
     <<0, 0, 0>>}
CoordArgs == {ListArg(v) : v \in CoordVectors} \cup {NotAList}
CoordMantissas == {0, 2, DefaultMantissa}

\* The strings a caller passes as outputType.
OutputTypes ==
    {<<"x", "y", "z">>, <<"X", "Y", "Z">>, <<"z", "y", "x">>,
     <<"x", "x", "Z">>, <<"x", ",", "y">>, <<"y">>, <<>>,
     <<"m", "a", "t", "r", "i", "x">>, <<"M", "a", "t", "r", "i", "x">>,
     <<"M", "A", "T", "R", "I", "X">>,
     <<"m", "a", "t", "r", "i", "x", "x">>}

\* str.lower(), on the characters that occur.
VLowerChar(c) ==
    CASE c = "X" -> "x" [] c = "Y" -> "y" [] c = "Z" -> "z" [] c = "M" -> "m"
      [] c = "A" -> "a" [] c = "T" -> "t" [] c = "R" -> "r" [] c = "I" -> "i"
      [] OTHER -> c

\* outputType = outputType.lower()
OutputTypeLower_AsGiven(str) == str
OutputTypeLower(str) == [n \in 1..Len(str) |-> VLowerChar(str[n])]

\* for axis in outputType: ... output.append(...)
RECURSIVE AxisOutput(_, _, _, _)
AxisOutput(str, x, y, z) ==
    IF str = <<>> THEN <<>>
    ELSE LET axis == Head(str)
             here == IF axis = "x" THEN <<x>>
                     ELSE IF axis = "y" THEN <<y>>
                     ELSE IF axis = "z" THEN <<z>>
                     ELSE <<>>
         IN  here \o AxisOutput(Tail(str), x, y, z)

Coordinates(vector, otype, mantissa) ==
    IF ~vector.isList THEN VNone
    ELSE LET x == RoundTo(vector.v[1], mantissa, CoordDigits)
             y == RoundTo(vector.v[2], mantissa, CoordDigits)
             z == RoundTo(vector.v[3], mantissa, CoordDigits)
             matrix == <<<<Milli, 0, 0, x>>,
                         <<0, Milli, 0, y>>,
                         <<0, 0, Milli, z>>,
                         <<0, 0, 0, Milli>>>>
             lowered == OutputTypeLower(otype)
         IN  IF lowered = <<"m", "a", "t", "r", "i", "x">> THEN VMatrix(matrix)
             ELSE VList(AxisOutput(lowered, x, y, z))

\* ---- the calls ----


VectorInit ==
    /\ \/ /\ vop = "AzimuthAltitude"
          /\ vectorA \in {ListArg(v) : v \in AzVectors}
          /\ vectorB = NotAList
          /\ vmantissa \in AzMantissas
          /\ vtolerance = TolDefault
          /\ outputType = <<>>
          /\ vexps = <<0, 0>>
       \/ /\ vop \in DirectionOps
          /\ vectorA = NotAList
          /\ vectorB = NotAList
          /\ vmantissa = DefaultMantissa
          /\ vtolerance = TolDefault
          /\ outputType = <<>>
          /\ vexps = <<0, 0>>
       \/ /\ vop = "Reverse"
          /\ vectorA \in VectorArgs
          /\ vectorB = NotAList
          /\ vmantissa = DefaultMantissa
          /\ vtolerance = TolDefault
          /\ outputType = <<>>
          /\ vexps = <<0, 0>>
       \/ /\ vop = "Cross"
          /\ vectorA \in VectorArgs
          /\ vectorB \in VectorArgs
          /\ vmantissa \in CrossMantissas
          /\ vtolerance \in CrossTolerances
          /\ outputType = <<>>
          /\ vexps = <<0, 0>>
       \/ /\ vop = "Coordinates"
          /\ vectorA \in CoordArgs
          /\ vectorB = NotAList
          /\ vmantissa \in CoordMantissas
          /\ vtolerance = TolDefault
          /\ outputType \in OutputTypes
          /\ vexps = <<0, 0>>
       \/ /\ vop = "Angle"
          /\ vectorA \in {ListArg(v) : v \in AngleVectors}
          /\ vectorB \in {ListArg(v) : v \in AngleVectors}
          /\ vmantissa \in CrossMantissas
          /\ vtolerance = TolDefault
          /\ outputType = <<>>
          /\ vexps \in AngleExps \X AngleExps
    /\ vret = VPending
    /\ vpc = "call"

CallAzimuthAltitude ==
    /\ vpc = "call"
    /\ vop = "AzimuthAltitude"
    /\ vret' = AzimuthAltitude(vectorA.v, vmantissa)
    /\ vpc' = "done"
    /\ UNCHANGED <<vop, vectorA, vectorB, vmantissa, vtolerance, outputType,
                   vexps>>
    /\ UNCHANGED <<figureVars, meshVars, remoteVars, exportVars,
                   lookupVars, traceVars>>

CallDirection ==
    /\ vpc = "call"
    /\ vop \in DirectionOps
    /\ vret' = VList(Direction(vop))
    /\ vpc' = "done"
    /\ UNCHANGED <<vop, vectorA, vectorB, vmantissa, vtolerance, outputType,
                   vexps>>
    /\ UNCHANGED <<figureVars, meshVars, remoteVars, exportVars,
                   lookupVars, traceVars>>

CallReverse ==
    /\ vpc = "call"
    /\ vop = "Reverse"
    /\ vret' = Reverse(vectorA)
    /\ vpc' = "done"
    /\ UNCHANGED <<vop, vectorA, vectorB, vmantissa, vtolerance, outputType,
                   vexps>>
    /\ UNCHANGED <<figureVars, meshVars, remoteVars, exportVars,
                   lookupVars, traceVars>>

CallCross ==
    /\ vpc = "call"
    /\ vop = "Cross"
    /\ vret' = Cross(vectorA, vectorB, vmantissa, vtolerance)
    /\ vpc' = "done"
    /\ UNCHANGED <<vop, vectorA, vectorB, vmantissa, vtolerance, outputType,
                   vexps>>
    /\ UNCHANGED <<figureVars, meshVars, remoteVars, exportVars,
                   lookupVars, traceVars>>

CallCoordinates ==
    /\ vpc = "call"
    /\ vop = "Coordinates"
    /\ vret' = Coordinates(vectorA, outputType, vmantissa)
    /\ vpc' = "done"
    /\ UNCHANGED <<vop, vectorA, vectorB, vmantissa, vtolerance, outputType,
                   vexps>>
    /\ UNCHANGED <<figureVars, meshVars, remoteVars, exportVars,
                   lookupVars, traceVars>>

CallAngle ==
    /\ vpc = "call"
    /\ vop = "Angle"
    /\ vret' \in Angle(vectorA.v, vexps[1], vectorB.v, vexps[2], vmantissa)
    /\ vpc' = "done"
    /\ UNCHANGED <<vop, vectorA, vectorB, vmantissa, vtolerance, outputType,
                   vexps>>
    /\ UNCHANGED <<figureVars, meshVars, remoteVars, exportVars,
                   lookupVars, traceVars>>

VectorNext ==
    \/ CallAngle
    \/ CallAzimuthAltitude
    \/ CallDirection
    \/ CallReverse
    \/ CallCross
    \/ CallCoordinates

-----------------------------------------------------------------------------
\* Plotly.py: FigureByMatrix, FigureByConfusionMatrix and FigureByData.

FigureOps == {"FigureByMatrix", "FigureByConfusionMatrix", "FigureByData"}

\* The matrix a caller passes: a list of rows of numbers, or something that
\* is neither a list nor an array.
Matrices ==
    UNION {[1..r -> [1..c -> 0..MaxCell]] : r \in 1..MaxDim, c \in 1..MaxDim}
MatrixArgs ==
    {[kind |-> "list", val |-> m] : m \in Matrices}
        \cup {[kind |-> "other", val |-> <<>>]}

\* The minValue and maxValue a caller passes.
ValueBounds == {PyNone} \cup {PyInt(n) : n \in 0..1}

\* What a call returns: nothing yet, None, or a figure (its traces, and the
\* zmin and zmax of its heatmap).
FigPending == [kind |-> "pending", data |-> <<>>, zmin |-> PyNone, zmax |-> PyNone]
FigNone == [kind |-> "none", data |-> <<>>, zmin |-> PyNone, zmax |-> PyNone]
Figure(data, zmin, zmax) ==
    [kind |-> "figure", data |-> data, zmin |-> zmin, zmax |-> zmax]

\* min(row), max(row)
RECURSIVE RowMin(_)
RowMin(row) ==
    IF Len(row) = 1 THEN row[1] ELSE Min2(row[1], RowMin(Tail(row)))
RECURSIVE RowMax(_)
RowMax(row) ==
    IF Len(row) = 1 THEN row[1] ELSE Max2(row[1], RowMax(Tail(row)))

\* min(min_values), max(max_values): one entry per row of the matrix
RECURSIVE MinOfRows(_)
MinOfRows(m) ==
    IF Len(m) = 1 THEN RowMin(m[1]) ELSE Min2(RowMin(m[1]), MinOfRows(Tail(m)))
RECURSIVE MaxOfRows(_)
MaxOfRows(m) ==
    IF Len(m) = 1 THEN RowMax(m[1]) ELSE Max2(RowMax(m[1]), MaxOfRows(Tail(m)))

\* if not maxValue or not minValue: ... if not minValue: minValueB = ...;
\* if not maxValue: maxValue = max(max_values). The minimum is assigned to
\* the name minValueB, which nothing reads; minValue keeps its value.
MatrixRange(minV, maxV, m) ==
    IF PyNot(maxV) \/ PyNot(minV)
    THEN [lo |-> minV,
          hi |-> IF PyNot(maxV) THEN PyInt(MaxOfRows(m)) ELSE maxV]
    ELSE [lo |-> minV, hi |-> maxV]

\* The traces of a caller, and the caller's data argument: a list of traces
\* or something that is not a list.
CallerTrace(n) ==
    [name |-> "caller", color |-> "", width |-> n, tip |-> <<0, 0, 0>>]
DataLists == {[k \in 1..n |-> CallerTrace(k)] : n \in 0..MaxTraces}
DataArgs ==
    {[kind |-> "list", items |-> d] : d \in DataLists}
        \cup {[kind |-> "other", items |-> <<>>]}

\* The name data is bound to the caller's object or to a new list.
Bound(ref, items) == [ref |-> ref, items |-> items]

\* edgeWidth=6 of the axis traces
AxisWidth == 6

\* Plotly.DataByTopology(wire, edgeColor=..., edgeWidth=6, showFaces=False,
\* showEdges=True, showVertices=False, edgeLegendLabel=...) for the wire of
\* the edge from v0 to the vertex at axisSize on axis k: a list of one edge
\* trace.
AxisData(k, size) ==
    <<[name |-> <<"X-Axis", "Y-Axis", "Z-Axis">>[k],
       color |-> <<"red", "green", "blue">>[k],
       width |-> AxisWidth,
       tip |-> [j \in 1..3 |-> IF j = k THEN size ELSE 0]]>>

\* data = data + xData, had it been written data += xData
ListAdd_InPlace(local, caller, extra) ==
    [local |-> Bound(local.ref, local.items \o extra),
     caller |-> IF local.ref = "caller"
                THEN [caller EXCEPT !.items = @ \o extra]
                ELSE caller]

\* data = data + xData: a new list is bound to the name, and the object the
\* name was bound to is left as it was
ListAdd(local, caller, extra) ==
    [local |-> Bound("fresh", local.items \o extra), caller |-> caller]

AxisStages == <<"xAxis", "yAxis", "zAxis", "figure">>

FigureInit ==
    /\ fop \in FigureOps
    /\ IF fop = "FigureByData"
       THEN /\ fmatrix = [kind |-> "other", val |-> <<>>]
            /\ fminArg = PyNone
            /\ fmaxArg = PyNone
            /\ fdataArg \in DataArgs
            /\ faxes \in [1..3 -> BOOLEAN]
            /\ faxisSize \in 1..MaxAxis
       ELSE /\ fmatrix \in MatrixArgs
            /\ fminArg \in ValueBounds
            /\ fmaxArg \in ValueBounds
            /\ fdataArg = [kind |-> "other", items |-> <<>>]
            /\ faxes = [k \in 1..3 |-> FALSE]
            /\ faxisSize = 1
    /\ fminValue = fminArg
    /\ fmaxValue = fmaxArg
    /\ fdata = Bound("caller", <<>>)
    /\ fret = FigPending
    /\ fpc = "call"

\* FigureByConfusionMatrix: the type test, then the call of FigureByMatrix
FigureByConfusionMatrixCheck ==
    /\ fpc = "call"
    /\ fop = "FigureByConfusionMatrix"
    /\ IF fmatrix.kind # "list"
       THEN fret' = FigNone /\ fpc' = "done"
       ELSE fpc' = "matrix" /\ UNCHANGED fret
    /\ UNCHANGED <<fop, fmatrix, fminArg, fmaxArg, fminValue, fmaxValue,
                   fdataArg, fdata, faxes, faxisSize>>
    /\ UNCHANGED <<meshVars, remoteVars, exportVars, lookupVars, traceVars,
                   vectorVars>>

\* FigureByMatrix: the type test
FigureByMatrixCheck ==
    /\ \/ fpc = "call" /\ fop = "FigureByMatrix"
       \/ fpc = "matrix"
    /\ IF fmatrix.kind # "list"
       THEN fret' = FigNone /\ fpc' = "done"
       ELSE fpc' = "range" /\ UNCHANGED fret
    /\ UNCHANGED <<fop, fmatrix, fminArg, fmaxArg, fminValue, fmaxValue,
                   fdataArg, fdata, faxes, faxisSize>>
    /\ UNCHANGED <<meshVars, remoteVars, exportVars, lookupVars, traceVars,
                   vectorVars>>

\* FigureByMatrix: the annotations and the range of the values
FigureByMatrixRange ==
    /\ fpc = "range"
    /\ fminValue' = MatrixRange(fminValue, fmaxValue, fmatrix.val).lo
    /\ fmaxValue' = MatrixRange(fminValue, fmaxValue, fmatrix.val).hi
    /\ fpc' = "heatmap"
    /\ UNCHANGED <<fop, fmatrix, fminArg, fmaxArg, fdataArg, fdata, faxes,
                   faxisSize, fret>>
    /\ UNCHANGED <<meshVars, remoteVars, exportVars, lookupVars, traceVars,
                   vectorVars>>

\* FigureByMatrix: go.Heatmap(..., zmin=minValue, zmax=maxValue, ...) and
\* the figure that is returned
FigureByMatrixReturn ==
    /\ fpc = "heatmap"
    /\ fret' = Figure(<<>>, fminValue, fmaxValue)
    /\ fpc' = IF fop = "FigureByConfusionMatrix" THEN "layout" ELSE "done"
    /\ UNCHANGED <<fop, fmatrix, fminArg, fmaxArg, fminValue, fmaxValue,
                   fdataArg, fdata, faxes, faxisSize>>
    /\ UNCHANGED <<meshVars, remoteVars, exportVars, lookupVars, traceVars,
                   vectorVars>>

\* FigureByConfusionMatrix: figure.update_layout(layout); return figure
FigureByConfusionMatrixReturn ==
    /\ fpc = "layout"
    /\ fpc' = "done"
    /\ UNCHANGED <<fop, fmatrix, fminArg, fmaxArg, fminValue, fmaxValue,
                   fdataArg, fdata, faxes, faxisSize, fret>>
    /\ UNCHANGED <<meshVars, remoteVars, exportVars, lookupVars, traceVars,
                   vectorVars>>

\* FigureByData: if not isinstance(data, list): return None
FigureByDataCheck ==
    /\ fpc = "call"
    /\ fop = "FigureByData"
    /\ IF fdataArg.kind # "list"
       THEN fret' = FigNone /\ fpc' = "done" /\ UNCHANGED fdata
       ELSE /\ fdata' = Bound("caller", fdataArg.items)
            /\ fpc' = AxisStages[1]
            /\ UNCHANGED fret
    /\ UNCHANGED <<fop, fmatrix, fminArg, fmaxArg, fminValue, fmaxValue,
                   fdataArg, faxes, faxisSize>>
    /\ UNCHANGED <<meshVars, remoteVars, exportVars, lookupVars, traceVars,
                   vectorVars>>

\* FigureByData: if xAxis: ...; if yAxis: ...; if zAxis: ...
FigureByDataAxis(k) ==
    /\ fpc = AxisStages[k]
    /\ IF faxes[k]
       THEN LET r == ListAdd(fdata, fdataArg, AxisData(k, faxisSize))
            IN  fdata' = r.local /\ fdataArg' = r.caller
       ELSE UNCHANGED <<fdata, fdataArg>>
    /\ fpc' = AxisStages[k + 1]
    /\ UNCHANGED <<fop, fmatrix, fminArg, fmaxArg, fminValue, fmaxValue,
                   faxes, faxisSize, fret>>
    /\ UNCHANGED <<meshVars, remoteVars, exportVars, lookupVars, traceVars,
                   vectorVars>>

\* FigureByData: figure = go.Figure(data=data); ...; return figure
FigureByDataReturn ==
    /\ fpc = "figure"
    /\ fret' = Figure(fdata.items, PyNone, PyNone)
    /\ fpc' = "done"
    /\ UNCHANGED <<fop, fmatrix, fminArg, fmaxArg, fminValue, fmaxValue,
                   fdataArg, fdata, faxes, faxisSize>>
    /\ UNCHANGED <<meshVars, remoteVars, exportVars, lookupVars, traceVars,
                   vectorVars>>

FigureNext ==
    \/ FigureByConfusionMatrixCheck
    \/ FigureByMatrixCheck
    \/ FigureByMatrixRange
    \/ FigureByMatrixReturn
    \/ FigureByConfusionMatrixReturn
    \/ FigureByDataCheck
    \/ \E k \in 1..3 : FigureByDataAxis(k)
    \/ FigureByDataReturn

----------------------------------------------------------------------------
\* The idle state of each subsystem, and the specifications.

MeshIdle ==
    /\ origin = "remote"
    /\ geomFaces = <<>>
    /\ sfaces = <<>>
    /\ mpc = "off"
    /\ dec_i = 0
    /\ dec_raw = 0
    /\ dec_n = 0
    /\ faces = <<>>
    /\ mret = NoReturn

RemoteIdle ==
    /\ rop = "none"
    /\ rarg = DefaultArg
    /\ rpc = "off"
    /\ rlog = <<>>
    /\ rpending = <<>>
    /\ rret = RPending
    /\ srvObjects = InitObjects
    /\ srvCommits = InitCommits

ExportIdle ==
    /\ xop = "none"
    /\ xfig = FALSE
    /\ xpath = [isStr |-> FALSE, chars |-> <<>>]
    /\ xoverwrite = "False"
    /\ xpc = "off"
    /\ xlocal = <<>>
    /\ xexists = FALSE
    /\ xret = XPending
    /\ fs = <<>>

LookupIdle ==
    /\ ntri = 0
    /\ ntris = 0
    /\ tri = <<>>
    /\ ncorner = 0
    /\ orig_tolerance = TolDefault
    /\ tolerance = TolDefault
    /\ ix = NoIndex
    /\ temp_f = <<>>
    /\ dfaces = <<>>
    /\ ijk = <<>>
    /\ lookups = <<>>
    /\ lpc = "off"
    /\ fkeyed = FALSE
    /\ towners = <<>>
    /\ f_dictionaries = <<>>
    /\ fsource = <<>>
    /\ flabels = <<>>

TraceIdle ==
    /\ tkind = "vertex"
    /\ keyed = FALSE
    /\ groups = <<>>
    /\ minGroupArg = PyNone
    /\ maxGroupArg = PyNone
    /\ minGroup = PyNone
    /\ maxGroup = PyNone
    /\ dictionaries = <<>>
    /\ tm = 0
    /\ color = CallerColor
    /\ groupList = <<>>
    /\ trace = NoTrace
    /\ tpc = "off"

VectorIdle ==
    /\ vop = "none"
    /\ vectorA = NotAList
    /\ vectorB = NotAList
    /\ vmantissa = DefaultMantissa
    /\ vtolerance = TolDefault
    /\ outputType = <<>>
    /\ vexps = <<0, 0>>
    /\ vret = VPending
    /\ vpc = "off"

FigureIdle ==
    /\ fop = "none"
    /\ fmatrix = [kind |-> "other", val |-> <<>>]
    /\ fminArg = PyNone
    /\ fmaxArg = PyNone
    /\ fminValue = PyNone
    /\ fmaxValue = PyNone
    /\ fdataArg = [kind |-> "other", items |-> <<>>]
    /\ fdata = Bound("caller", <<>>)
    /\ faxes = [k \in 1..3 |-> FALSE]
    /\ faxisSize = 1
    /\ fret = FigPending
    /\ fpc = "off"

InitMesh ==
    /\ MeshInit
    /\ RemoteIdle
    /\ ExportIdle
    /\ LookupIdle
    /\ TraceIdle
    /\ VectorIdle
    /\ FigureIdle
SpecMesh == InitMesh /\ [][MeshNext]_vars

InitRemote ==
    /\ RemoteInit
    /\ MeshIdle
    /\ ExportIdle
    /\ LookupIdle
    /\ TraceIdle
    /\ VectorIdle
    /\ FigureIdle
SpecRemote == InitRemote /\ [][RemoteNext]_vars

InitExport ==
    /\ ExportInit
    /\ MeshIdle
    /\ RemoteIdle
    /\ LookupIdle
    /\ TraceIdle
    /\ VectorIdle
    /\ FigureIdle
SpecExport == InitExport /\ [][ExportNext]_vars

InitLookup ==
    /\ LookupInit
    /\ MeshIdle
    /\ RemoteIdle
    /\ ExportIdle
    /\ TraceIdle
    /\ VectorIdle
    /\ FigureIdle
SpecLookup == InitLookup /\ [][LookupNext]_vars

InitTrace ==
    /\ TraceInit
    /\ MeshIdle
    /\ RemoteIdle
    /\ ExportIdle
    /\ LookupIdle
    /\ VectorIdle
    /\ FigureIdle
SpecTrace == InitTrace /\ [][TraceNext]_vars

InitVector ==
    /\ VectorInit
    /\ MeshIdle
    /\ RemoteIdle
    /\ ExportIdle
    /\ LookupIdle
    /\ TraceIdle
    /\ FigureIdle
SpecVector == InitVector /\ [][VectorNext]_vars

InitFigure ==
    /\ FigureInit
    /\ MeshIdle
    /\ RemoteIdle
    /\ ExportIdle
    /\ LookupIdle
    /\ TraceIdle
    /\ VectorIdle
SpecFigure == InitFigure /\ [][FigureNext]_vars

----------------------------------------------------------------------------
\* Properties of the mesh record.

\* The positions of a face buffer that hold a face count, by the wire format
\* [count, i0, ..., i(count-1)] repeated per face.
RECURSIVE CountPositionsFrom(_, _)
CountPositionsFrom(buf, k) ==
    IF k > Len(buf) THEN {}
    ELSE {k} \cup (IF buf[k] < 0 THEN {} ELSE CountPositionsFrom(buf, k + 1 + buf[k]))

\* C1: decoding the face buffer the encoder wrote returns exactly the
\* original face index lists, for every list of faces of arity >= 3.
C1_RoundTrip ==
    (origin = "local" /\ mpc = "done") => mret = ReturnList(geomFaces)

\* C2: the decoder adds 3 to an encoded count only when it is 0 or 1; every
\* other count is the number of indices read, unchanged.
C2_AdjustOnlyZeroOne ==
    (mpc \in {"loop", "done"} /\ Len(faces) > 0)
        => dec_n = (IF dec_raw \in {0, 1} THEN dec_raw + 3 ELSE dec_raw)

C27_ReadPositionAdvances ==
    [][Len(faces') > Len(faces) => dec_i' > dec_i]_vars

----------------------------------------------------------------------------
\* Properties of the remote operations.

\* C4: SpeckleCommitDelete issues the commit-delete request only when confirm
\* is truthy; with a falsy confirm it returns False without any request and
\* the commits of the service are unchanged.
C4_NoDeleteWithoutConfirm ==
    rop = "SpeckleCommitDelete" =>
        /\ rlog # <<>> => Truthy(rarg.confirm)
        /\ ~Truthy(rarg.confirm) =>
              /\ srvCommits = InitCommits
              /\ rpc = "done" => rret = RReturn("False", 0)

C4_Witness ==
    /\ rop = "SpeckleCommitDelete"
    /\ rpc = "done"
    /\ rarg.confirm = "0"
    /\ rret = RReturn("False", 0)
    /\ rlog = <<>>
    /\ \E c \in srvCommits : c.id = rarg.commit

\* C5: with a truthy confirm, a failed delete request makes
\* SpeckleCommitDelete return False, never raise; a successful request makes
\* it return the value the remote client returned.
C5_DeleteFailureReturnsFalse ==
    (rop = "SpeckleCommitDelete" /\ rpc = "done" /\ Truthy(rarg.confirm)) =>
        /\ rret.kind = "returned"
        /\ Len(rlog) = 1
        /\ ~rlog[1].ok => rret.val = "False"
        /\ rlog[1].ok => rret.val = rlog[1].resp

C5_Witness ==
    /\ rop = "SpeckleCommitDelete"
    /\ rpc = "done"
    /\ Truthy(rarg.confirm)
    /\ Len(rlog) = 1
    /\ ~rlog[1].ok
    /\ rret = RReturn("False", 0)

\* C6: in every operation other than SpeckleCommitDelete a failed request is
\* the call's last request and ends it with an exception (no retry, no
\* conversion to None/False), and what the service already holds stays: the
\* objects and commits it had, and every object uploaded or commit created by
\* an earlier request of the call.
C6_FailurePropagates ==
    rop \in RemoteOps \ {"SpeckleCommitDelete"} =>
        /\ \A k \in 1..Len(rlog) :
              ~rlog[k].ok => (k = Len(rlog) /\ rpc = "done" /\ rret = RRaised)
        /\ InitObjects \subseteq srvObjects
        /\ InitCommits \subseteq srvCommits
        /\ \A k \in 1..Len(rlog) :
              /\ (rlog[k].ok /\ rlog[k].req = "operations.send")
                    => rlog[k].id \in srvObjects
              /\ (rlog[k].ok /\ rlog[k].req = "commit.create")
                    => \E c \in srvCommits : c.id = rlog[k].id

C6_Witness ==
    /\ rop = "Send"
    /\ rpc = "done"
    /\ Len(rlog) = 2
    /\ rlog[1].ok
    /\ ~rlog[2].ok
    /\ rret = RRaised
    /\ rlog[1].id \in srvObjects
    /\ rlog[1].id \notin {c.obj : c \in srvCommits}

\* A Send or SpeckleSendObjects call is over.
SendDone == rop \in SendOps /\ rpc = "done"

\* C25: with run true, Send and SpeckleSendObjects create the new commit on
\* the branch passed as their branch argument; with run false they return
\* None and issue no remote request.
C25_CommitOnBranchArgument ==
    SendDone =>
        IF Truthy(rarg.run)
        THEN \A c \in srvCommits \ InitCommits : c.branch = rarg.branch.name
        ELSE rret = RReturn("None", 0) /\ rlog = <<>>

\* The upload and the commit creation of the call both succeeded.
SendSucceeded ==
    /\ SendDone
    /\ Len(rlog) = 2
    /\ rlog[1].ok /\ rlog[1].req = "operations.send"
    /\ rlog[2].ok /\ rlog[2].req = "commit.create"

\* C26: with run true, when the upload and the commit creation both succeed,
\* Send and SpeckleSendObjects return the commit just created (its id is the
\* id commit.create answered), never None, for a branch object the caller
\* fetched before the call.
C26_ReturnsNewCommit ==
    SendSucceeded =>
        /\ rret.kind = "returned"
        /\ rret.val = "commit"
        /\ rret.id = rlog[2].id

\* C29: an object built by mesh_to_speckle, sent and received unchanged, is
\* read back by Speckle.Object: the decoder takes the mesh from the key under
\* which the encoder stored it.
C29_EncodedObjectReadBack ==
    (/\ rop = "Object"
     /\ rpc = "done"
     /\ Len(rlog) = 1
     /\ rlog[1].ok
     /\ rlog[1].resp = EncoderKey)
        => rret = RReturn("topology", 0)

----------------------------------------------------------------------------
\* Properties of the figure export operations.

\* Every file of another process is still there, with its content, after the step.
OtherFilesKept ==
    \A q \in DOMAIN fs :
        fs[q] = "other" => (q \in DOMAIN fs' /\ fs'[q] = "other")

\* C7: FigureExportToJSON with overwrite=False never modifies or replaces an
\* existing file: on an existing target the exclusive create fails, the call
\* returns None without writing, whenever another process created the file.
C7_JSONNeverClobbers ==
    [][(xop = "JSON" /\ PyEqFalse(xoverwrite)) =>
          /\ OtherFilesKept
          /\ (xpc = "open" /\ xlocal \in DOMAIN fs /\ xpc' # xpc) =>
                (xret' = XReturn("None") /\ xpc' = "done" /\ fs' = fs)]_vars

C7_Witness ==
    /\ xop = "JSON"
    /\ xoverwrite = "False"
    /\ xfig
    /\ xpath.isStr
    /\ xpc = "done"
    /\ xret = XReturn("None")
    /\ xlocal \in DOMAIN fs
    /\ fs[xlocal] = "other"

\* C8 as stated: FigureExportToPNG/SVG/PDF with overwrite=False never overwrite
\* an existing file, under any interleaving with a process creating the file.
C8_ImageNeverClobbers ==
    [][(xop \in ImageOps /\ PyEqFalse(xoverwrite)) => OtherFilesKept]_vars

\* C8, amended: with overwrite=False the call aborts before writing whenever
\* the file exists when the existence check runs; the only file of another
\* process it ever replaces is the target, at the write, after a check that
\* found no file there.
C8_ImageGuardAtCheck ==
    [][(xop \in ImageOps /\ PyEqFalse(xoverwrite)) =>
          /\ (xpc = "check" /\ xlocal \in DOMAIN fs /\ xpc' # xpc) =>
                (xret' = XReturn("None") /\ xpc' = "done" /\ fs' = fs)
          /\ \A q \in DOMAIN fs :
                (fs[q] = "other" /\ ~(q \in DOMAIN fs' /\ fs'[q] = "other")) =>
                    (xpc = "write" /\ ~xexists /\ q = xlocal)]_vars

C8_Witness ==
    /\ xop \in ImageOps
    /\ xoverwrite = "False"
    /\ xpc = "done"
    /\ xexists
    /\ xret = XReturn("None")
    /\ xlocal \in DOMAIN fs
    /\ fs[xlocal] = "other"

\* C9: each figure export operation returns a boolean, True or False, for
\* every outcome.
C9_ReturnsBoolean ==
    xpc = "done" => (xret.kind = "returned" /\ xret.val \in {"True", "False"})

\* The extension of each format, as the specification names it.
ClaimedExt(op) ==
    CASE op = "JSON" -> <<".", "j", "s", "o", "n">>
      [] op = "PDF" -> <<".", "p", "d", "f">>
      [] op = "PNG" -> <<".", "p", "n", "g">>
      [] op = "SVG" -> <<".", "s", "v", "g">>

\* path ends with ext, whatever the letter case.
EndsWithCI(path, ext) ==
    /\ Len(path) >= Len(ext)
    /\ \A k \in 1..Len(ext) : LowerChar(path[Len(path) - Len(ext) + k]) = ext[k]

\* C10: the path used for the guard and the write ends, case-insensitively,
\* with the format's extension; a path that already ends with it is used
\* unchanged, any other path gets the extension appended once, and
\* normalizing the normalized path changes nothing.
C10_ExtensionNormalized ==
    (xpc \in {"open", "check", "write", "done"} /\ xfig /\ xpath.isStr) =>
        LET ext == ClaimedExt(xop)
            given == xpath.chars
        IN  /\ EndsWithCI(xlocal, ext)
            /\ EndsWithCI(given, ext) => xlocal = given
            /\ ~EndsWithCI(given, ext) => xlocal = given \o ext
            /\ NormalizePath(xop, xlocal) = xlocal

C10_Witness ==
    /\ xop = "PNG"
    /\ xpath = [isStr |-> TRUE, chars |-> <<"a", ".", "P", "n", "G">>]
    /\ xlocal = <<"a", ".", "P", "n", "G">>
    /\ xpc = "done"
    /\ xret = XReturn("True")
    /\ fs[xlocal] = "image"

\* C30: a FigureExportToJSON call that does not return True (it returns None
\* or raises) leaves the file system as it was: the call has created or
\* modified no file, so every file there is holds what another process wrote.
C30_FailedExportLeavesNoFile ==
    (xop = "JSON" /\ xpc = "done" /\ xret # XReturn("True"))
        => \A q \in DOMAIN fs : fs[q] = "other"

----------------------------------------------------------------------------
\* Properties of the vertex lookup of DataByTopology.

\* t0, 10*t0, 100*t0, ...: the entry after k multiplications
RECURSIVE Escalated(_, _)
Escalated(t0, k) == IF k = 0 THEN t0 ELSE 10 * Escalated(t0, k - 1)

\* C11: the lookups of one corner use the tolerances t0, 10*t0, 100*t0, ...
\* in this order, starting again from the caller's t0 at every corner; a
\* lookup is made only after every earlier lookup of the corner found no
\* match, and no lookup is made with a tolerance of 3 distance units or more.
C11_EscalatingLookups ==
    \A k \in 1..Len(lookups) :
        /\ lookups[k].tol = Escalated(orig_tolerance, k - 1)
        /\ lookups[k].tol < 3 * TolScale
        /\ \A h \in 1..(k - 1) : lookups[h].res = NoIndex

\* The second corner of a triangle is matched by its second lookup.
C11_Witness ==
    /\ lpc = "while"
    /\ ncorner >= 2
    /\ Len(lookups) = 2
    /\ orig_tolerance > 0
    /\ ~(lookups[2].res = NoIndex)

\* C12: the loop of every corner terminates, whatever tolerance the caller
\* supplied and also when no vertex matches: the distance cap bounds the
\* number of lookups, since a lookup that finds no match leaves the loop
\* with a tolerance strictly nearer to the cap.
C12_LookupsBoundedByCap ==
    [][(lpc = "while" /\ ~(lookups' = lookups))
          => (~(ix' = NoIndex) \/ tolerance' > tolerance)]_vars

\* a face of the mesh trace: three or more positions of tp_verts
ValidFace(f) ==
    /\ Len(f) >= 3
    /\ \A n \in 1..Len(f) : f[n] \in 0..(NumVerts - 1)

\* Some tolerance of t, 10*t, ... below the cap reaches a vertex from p.
RECURSIVE Matchable(_, _)
Matchable(p, t) ==
    IF t <= 0 \/ t >= 3 * TolScale THEN FALSE
    ELSE \/ \E k \in 0..(NumVerts - 1) : Distance(p, tp_verts[k]) < t
         \/ Matchable(p, 10 * t)

\* C13: every face handed to the mesh trace has three or more indices, each a
\* position of the original vertex array, and so has every entry of the
\* lists i, j, k; a triangle with a corner that matches no vertex within the
\* cap adds no face.
C13_FacesValid ==
    [][/\ \A m \in 1..Len(dfaces') : ValidFace(dfaces'[m])
       /\ \A m \in 1..Len(ijk') :
              \A n \in 1..3 : ijk'[m][n] \in 0..(NumVerts - 1)
       /\ (lpc = "corners" /\ lpc' = "triangles"
             /\ \E n \in 1..Len(tri) : ~Matchable(tri[n], orig_tolerance))
          => dfaces' = dfaces]_vars

\* The faces are handed over, one triangle kept and one omitted.
C13_Witness ==
    /\ lpc = "done"
    /\ Len(ijk) >= 1
    /\ Len(dfaces) < ntris
    /\ orig_tolerance > 0

\* C28: with faceLabelKey or faceGroupKey set, the m-th face of the trace is
\* labelled and colored from the dictionary of the topology face whose
\* triangulation produced it, also when earlier triangles were left out: the
\* faces and the face dictionaries have the same length and are aligned.
C28_DictionariesAligned ==
    (lpc = "done" /\ fkeyed)
        => /\ Len(f_dictionaries) = Len(dfaces)
           /\ flabels = fsource

----------------------------------------------------------------------------
\* Properties of the trace colors.

\* C14: a vertex, edge or face trace whose elements resolve fewer than two
\* distinct colors is colored with the one flat color the caller passed
\* (vertexColor, edgeColor, faceColor), not with a color computed from the
\* group of an element.
C14_CollapseToCallerColor ==
    (tpc = "done" /\ Cardinality(SeqToSet(groupList)) < 2)
        => /\ trace.color.flat
           /\ trace.color.one = CallerColor
           /\ trace.facecolor = NoColors

\* The group range has been settled for a non-empty numeric groups list.
NumericRangeDone ==
    /\ tpc \in {"elements", "return", "done"}
    /\ keyed
    /\ Len(groups) > 0
    /\ IsNumber(groups[1])

\* C22: with a non-empty numeric groups list, a minimum or maximum group the
\* caller passed is the one used whenever it is not None, the number 0
\* included; only None is replaced, by the minimum or the maximum of groups.
C22_CallerBoundsKept ==
    NumericRangeDone
        => /\ minGroup = IF minGroupArg = PyNone
                         THEN PyInt(MinOf(groups)) ELSE minGroupArg
           /\ maxGroup = IF maxGroupArg = PyNone
                         THEN PyInt(MaxOf(groups)) ELSE maxGroupArg

----------------------------------------------------------------------------
\* Properties of the vector operations.

AzDone == vpc = "done" /\ vop = "AzimuthAltitude"

\* C15: AzimuthAltitude of a vector with x = 0 and y = 0 answers azimuth 0
\* and altitude 90 when z > 0, azimuth 0 and altitude -90 when z < 0, and
\* None when z = 0; for every vector with x # 0 or y # 0 it answers a
\* dictionary.
C15_PoleCases ==
    AzDone =>
        LET x == vectorA.v[1]
            y == vectorA.v[2]
            z == vectorA.v[3]
        IN  /\ (x = 0 /\ y = 0 /\ z > 0)
                => (vret.kind = "dict" /\ vret.val = <<0, 90 * Deg>>)
            /\ (x = 0 /\ y = 0 /\ z < 0)
                => (vret.kind = "dict" /\ vret.val = <<0, 0 - 90 * Deg>>)
            /\ (x = 0 /\ y = 0 /\ z = 0) => vret.kind = "None"
            /\ (~(x = 0) \/ ~(y = 0)) => vret.kind = "dict"

\* The vector points straight down.
C15_Witness ==
    /\ AzDone
    /\ vectorA.v = <<0, 0, -1>>
    /\ vret.kind = "dict"

\* C16: for every vector with x # 0 or y # 0 the azimuth AzimuthAltitude
\* answers lies in [0, 360), never negative and never 360; it is 0 for +Y,
\* 90 for +X, 180 for -Y and 270 for -X, with altitude 0 for these four
\* directions.
C16_AzimuthInRange ==
    (AzDone /\ (~(vectorA.v[1] = 0) \/ ~(vectorA.v[2] = 0))) =>
        LET x == vectorA.v[1]
            y == vectorA.v[2]
            z == vectorA.v[3]
            azimuth == vret.val[1]
            altitude == vret.val[2]
        IN  /\ 0 <= azimuth
            /\ azimuth < 360 * Deg
            /\ (x = 0 /\ y > 0 /\ z = 0) => (azimuth = 0 /\ altitude = 0)
            /\ (x > 0 /\ y = 0 /\ z = 0)
                => (azimuth = 90 * Deg /\ altitude = 0)
            /\ (x = 0 /\ y < 0 /\ z = 0)
                => (azimuth = 180 * Deg /\ altitude = 0)
            /\ (x < 0 /\ y = 0 /\ z = 0)
                => (azimuth = 270 * Deg /\ altitude = 0)

\* the literal the specification gives for every direction constant
Literal(op) ==
    CASE op = "North" -> <<0, 1, 0>>
      [] op = "South" -> <<0, -1, 0>>
      [] op = "East" -> <<1, 0, 0>>
      [] op = "West" -> <<-1, 0, 0>>
      [] op = "Up" -> <<0, 0, 1>>
      [] op = "Down" -> <<0, 0, -1>>
      [] op = "NorthEast" -> <<1, 1, 0>>
      [] op = "NorthWest" -> <<-1, 1, 0>>
      [] op = "SouthEast" -> <<1, -1, 0>>
      [] op = "SouthWest" -> <<-1, -1, 0>>
      [] op = "XAxis" -> <<1, 0, 0>>
      [] op = "YAxis" -> <<0, 1, 0>>
      [] op = "ZAxis" -> <<0, 0, 1>>

OppositePairs ==
    {<<"North", "South">>, <<"East", "West">>, <<"Up", "Down">>,
     <<"NorthEast", "SouthWest">>, <<"NorthWest", "SouthEast">>}

\* C17: every call of a direction constant answers its literal (North
\* [0,1,0], South [0,-1,0], East [1,0,0], West [-1,0,0], Up [0,0,1], Down
\* [0,0,-1], NorthEast [1,1,0], NorthWest [-1,1,0], SouthEast [1,-1,0],
\* SouthWest [-1,-1,0], XAxis [1,0,0], YAxis [0,1,0], ZAxis [0,0,1]), and
\* Reverse maps every constant of an opposite pair to the other one.
C17_DirectionLiterals ==
    /\ (vpc = "done" /\ vop \in DirectionOps)
        => (vret.kind = "list" /\ vret.val = Literal(vop))
    /\ \A pair \in OppositePairs :
        /\ Reverse(ListArg(Direction(pair[1]))) = VList(Direction(pair[2]))
        /\ Reverse(ListArg(Direction(pair[2]))) = VList(Direction(pair[1]))
    /\ (vpc = "done" /\ vop = "Reverse" /\ vectorA.isList) =>
        \A pair \in OppositePairs :
            /\ vectorA.v = Literal(pair[1])
                => vret.val = Literal(pair[2])
            /\ vectorA.v = Literal(pair[2])
                => vret.val = Literal(pair[1])

\* SouthWest has been called.
C17_Witness ==
    /\ vpc = "done"
    /\ vop = "SouthWest"
    /\ vret.kind = "list"

IsZero(a) == \A n \in 1..3 : a[n] = 0
Parallel(a, b) == \A m \in 1..3 : \A n \in 1..3 : a[m] * b[n] = a[n] * b[m]
Dot(a, b) == a[1] * b[1] + a[2] * b[2] + a[3] * b[3]

CrossDone == vpc = "done" /\ vop = "Cross"

\* C18: over integer vectors and a tolerance between 0 and 1, Cross answers
\* None exactly when a or b is not a list, or a or b is the zero vector, or
\* a and b are parallel (the magnitude of a, of b or of a x b is below the
\* tolerance); in every other case it answers
\* [a1*b2-a2*b1, a2*b0-a0*b2, a0*b1-a1*b0].
C18_CrossFailsExactly ==
    CrossDone =>
        LET a == vectorA.v
            b == vectorB.v
        IN  IF \/ ~vectorA.isList
               \/ ~vectorB.isList
               \/ IsZero(a)
               \/ IsZero(b)
               \/ Parallel(a, b)
            THEN vret.kind = "None"
            ELSE /\ vret.kind = "list"
                 /\ vret.val = <<a[2] * b[3] - a[3] * b[2],
                                 a[3] * b[1] - a[1] * b[3],
                                 a[1] * b[2] - a[2] * b[1]>>

\* Cross has answered a vector with no zero component.
C18_Witness ==
    /\ CrossDone
    /\ vret.kind = "list"
    /\ \A n \in 1..3 : ~(vret.val[n] = 0)
    /\ vtolerance = TolDefault

\* C19: a vector c that Cross(a, b) answers is perpendicular to a and to b,
\* dot(c, a) = 0 and dot(c, b) = 0, and Cross(b, a) answers Reverse(c).
C19_CrossPerpendicular ==
    (CrossDone /\ vret.kind = "list") =>
        /\ Dot(vret.val, vectorA.v) = 0
        /\ Dot(vret.val, vectorB.v) = 0
        /\ Cross(vectorB, vectorA, vmantissa, vtolerance)
               = Reverse(ListArg(vret.val))

\* Cross has answered a vector for two inputs with no zero component.
C19_Witness ==
    /\ CrossDone
    /\ vret.kind = "list"
    /\ \A n \in 1..3 : ~(vectorA.v[n] = 0) /\ ~(vectorB.v[n] = 0)

\* the word "matrix" in any letter case
IsMatrixWord(str) ==
    /\ Len(str) = 6
    /\ str[1] \in {"m", "M"}
    /\ str[2] \in {"a", "A"}
    /\ str[3] \in {"t", "T"}
    /\ str[4] \in {"r", "R"}
    /\ str[5] \in {"i", "I"}
    /\ str[6] \in {"x", "X"}

\* one component per character that is x, y or z in either case
RECURSIVE ExpectedAxes(_, _)
ExpectedAxes(str, c) ==
    IF str = <<>> THEN <<>>
    ELSE (IF Head(str) \in {"x", "X"} THEN <<c[1]>>
          ELSE IF Head(str) \in {"y", "Y"} THEN <<c[2]>>
          ELSE IF Head(str) \in {"z", "Z"} THEN <<c[3]>>
          ELSE <<>>) \o ExpectedAxes(Tail(str), c)

\* C20: Coordinates answers None when the vector is not a list; the matrix
\* [[1,0,0,x],[0,1,0,y],[0,0,1,z],[0,0,0,1]] when outputType is "matrix" in
\* any letter case; otherwise one rounded component for every character of
\* outputType that is x, y or z in either case, in the order of the
\* characters, repeated letters repeated, other characters ignored.
C20_CoordinatesOutput ==
    (vpc = "done" /\ vop = "Coordinates") =>
        LET c == [n \in 1..3 |-> RoundTo(vectorA.v[n], vmantissa, CoordDigits)]
        IN  IF ~vectorA.isList THEN vret.kind = "None"
            ELSE IF IsMatrixWord(outputType)
            THEN /\ vret.kind = "matrix"
                 /\ vret.val = <<<<Milli, 0, 0, c[1]>>, <<0, Milli, 0, c[2]>>,
                                 <<0, 0, Milli, c[3]>>, <<0, 0, 0, Milli>>>>
            ELSE /\ vret.kind = "list"
                 /\ vret.val = ExpectedAxes(outputType, c)

\* A repeated letter and a capital one, with components that are rounded.
C20_Witness ==
    /\ vpc = "done"
    /\ vop = "Coordinates"
    /\ outputType = <<"x", "x", "Z">>
    /\ vmantissa = 0
    /\ vectorA = ListArg(<<-2500, 125, 1234>>)
    /\ vret = VList(<<-2000, -2000, 1000>>)

AngleDone == vpc = "done" /\ vop = "Angle"

\* a vector of length 1: one component is 1 or -1, the others are 0, and
\* the exponent is 0
IsUnit(m, e) == e = 0 /\ SquaredNorm(m) = 1

\* C21: Angle(a, a) = 0 and Angle(a, Reverse(a)) = 180 for every unit vector
\* a, and for all non-zero vectors a and b Angle(a, b) is a number of
\* [0, 180].
C21_AngleRange ==
    AngleDone =>
        /\ vret.kind = "float"
        /\ 0 <= vret.val[1]
        /\ vret.val[1] <= 180 * Deg
        /\ (IsUnit(vectorA.v, vexps[1]) /\ vexps[2] = 0
              /\ vectorB.v = vectorA.v)
            => vret.val[1] = 0
        /\ (IsUnit(vectorA.v, vexps[1]) /\ vexps[2] = 0
              /\ VList(vectorB.v) = Reverse(vectorA))
            => vret.val[1] = 180 * Deg


-----------------------------------------------------------------------------
\* Properties of the figures.

MatrixDone ==
    /\ fpc = "done"
    /\ fop \in {"FigureByMatrix", "FigureByConfusionMatrix"}
    /\ fret.kind = "figure"

\* C23: in FigureByMatrix and FigureByConfusionMatrix, when minValue is None
\* the zmin of the heatmap is the minimum value of the input matrix, and when
\* maxValue is None the zmax is the maximum value of the input matrix.
C23_RangeFromMatrix ==
    MatrixDone
        => /\ fminArg = PyNone => fret.zmin = PyInt(MinOfRows(fmatrix.val))
           /\ fmaxArg = PyNone => fret.zmax = PyInt(MaxOfRows(fmatrix.val))

DataDone == fpc = "done" /\ fop = "FigureByData" /\ fret.kind = "figure"

\* The trace of axis k, as the caller of FigureByData expects it.
AxisTrace(k) ==
    CASE k = 1 -> [name |-> "X-Axis", color |-> "red", width |-> AxisWidth,
                   tip |-> <<faxisSize, 0, 0>>]
      [] k = 2 -> [name |-> "Y-Axis", color |-> "green", width |-> AxisWidth,
                   tip |-> <<0, faxisSize, 0>>]
      [] k = 3 -> [name |-> "Z-Axis", color |-> "blue", width |-> AxisWidth,
                   tip |-> <<0, 0, faxisSize>>]

\* The traces of the enabled axes from axis k on, in the order X, Y, Z.
RECURSIVE EnabledAxes(_)
EnabledAxes(k) ==
    IF k > 3 THEN <<>>
    ELSE (IF faxes[k] THEN <<AxisTrace(k)>> ELSE <<>>) \o EnabledAxes(k + 1)

\* C24: the figure of FigureByData holds the caller's traces followed by one
\* line trace per enabled axis flag, in the order X (red), Y (green),
\* Z (blue), each the segment from the origin of length axisSize; with no
\* flag set it holds exactly the caller's traces; and the list object the
\* caller passed is never changed.
C24_AxesAfterCallerTraces ==
    /\ [](DataDone => fret.data = fdataArg.items \o EnabledAxes(1))
    /\ [][fdataArg' = fdataArg]_vars

C24_Witness ==
    /\ DataDone
    /\ Len(fdataArg.items) = MaxTraces
    /\ faxes = <<TRUE, FALSE, TRUE>>
    /\ Len(fret.data) = MaxTraces + 2
====
